---- MODULE Spec2Model ----
(***************************************************************************)
(* A state-machine model of the tick-driven task scheduler of              *)
(* Scheduler.cpp / Scheduler.h (class Scheduler).                          *)
(*                                                                         *)
(* The linked list that hangs off schedule_root_node is a sequence of      *)
(* ScheduleItem records in list order; a ScheduleItem* is an index into    *)
(* it, 0 being NULL.  The 32-bit counters are kept modulo a scaled-down    *)
(* width.  A callback is opaque code of the embedder: between the call     *)
(* at Scheduler.cpp:580 and its return the callback may call every public  *)
(* operation of the class, so serviceScheduledEvents is split at the call. *)
(* A callback that calls serviceScheduledEvents itself is not modelled.    *)
(***************************************************************************)
EXTENDS Integers, Sequences, FiniteSets, TLC

(***************************************************************************)
(* Bounds of the model.                                                    *)
(***************************************************************************)
\* The schedules a sketch registers in setup() (SpecDriver), and the
\* ScheduleItems the heap holds when PIDs wrap around (SpecPid).
MaxItems == 2
\* Finite recurrences a sketch registers its schedules with: 0 .. MaxRecurs.
MaxRecurs == 1
\* next_pid is a uint32_t: arithmetic modulo 2^32, scaled down to this modulus.
PidModulus == 4

\* micros() and the fields of a ScheduleProfile are uint32_t: arithmetic modulo
\* 2^32, scaled down to this modulus.
MicrosModulus == 3

\* advanceScheduler calls of the end-to-end scenario.
ScenarioTicks == 45

\* alterSchedule calls of one behaviour of SpecAlter.
MaxAlters == 1
\* productive_loops and total_loops are uint32_t: 2^32 in the source
LoopModulus == 4

\* Schedules of the sketch that keeps up.
KeepUpItems == 4

\* micros() is uint32_t: 2^32 in the source, this modulus where the claim is
\* about the subtraction alone.
ClockModulus == 8

\* The null function pointer / null ScheduleItem* (as a callback value).
NULL == "NULL"

VARIABLES
  schedule_root_node,   \* the list of ScheduleItems, in list order
  next_pid,             \* next PID to assign
  currently_executing,  \* PID of the schedule whose callback is running, or 0
  current,              \* serviceScheduledEvents' cursor while a callback runs, else 0
  productive_loops,     \* calls of serviceScheduledEvents that ran a schedule
  total_loops,          \* calls of serviceScheduledEvents
  ret,                  \* value returned by the last non-void operation (true = 1)
  heap,                 \* the ScheduleProfile blocks malloc hands out, by address
  profile_start_time,   \* local of serviceScheduledEvents: micros() before the callback
  profile_last_time,    \* local of serviceScheduledEvents: micros() after the callback
  runs,                 \* history: PID -> number of times its callback was called
  born,                 \* history: PID -> <<recurrence, autoclear, ...>> it was created with
  ticks,                \* history: PID -> advanceScheduler calls since created/marked
  issued,               \* history: the PIDs createSchedule has returned
  last_issued,          \* history: the PID the last successful create returned
  wrapped,              \* history: next_pid has wrapped around to 0
  self_removed,         \* history: the running callback asked to remove its schedule
  looping,              \* history: the sketch has left setup() and runs loop()
  asked,                \* history: what the last call was asked to do
  armed,                \* history: PID -> advanceScheduler calls since it was re-enabled
  clock,                \* history: calls counted (advanceScheduler, or the alters)
  undefined             \* history: the undefined behaviour the program has run into

prog == <<schedule_root_node, next_pid, currently_executing, current,
          productive_loops, total_loops, ret, heap, profile_start_time,
          profile_last_time>>
hist == <<runs, born, ticks, issued, last_issued, wrapped,
          self_removed, looping, asked, armed, clock, undefined>>
vars == <<prog, hist>>

PIDs == 0 .. (PidModulus - 1)

\* The values of micros().
Micros == 0 .. (MicrosModulus - 1)
\* The addresses malloc(sizeof(ScheduleProfile)) can return; 0 is NULL.
ProfBlocks == {1}
\* A block of the heap that is not allocated.
FreeBlock ==
  [live |-> FALSE, profiling_active |-> FALSE, last_time_micros |-> 0,
   worst_time_micros |-> 0, best_time_micros |-> 0, execution_count |-> 0]
\* An operation that has nothing to do with profiling.
NoProfiling == UNCHANGED <<heap, profile_start_time, profile_last_time>>

(***************************************************************************)
(* The list helpers.                                                       *)
(***************************************************************************)
Nodes == 1 .. Len(schedule_root_node)

getTotalSchedules == Len(schedule_root_node)

getActiveSchedules ==
  Cardinality({i \in Nodes : schedule_root_node[i].thread_enabled})

\* The first node with the given PID, 0 (NULL) if there is none.
findNodeByPID(g_pid) ==
  IF \E i \in Nodes : schedule_root_node[i].pid = g_pid
  THEN CHOOSE i \in Nodes :
         /\ schedule_root_node[i].pid = g_pid
         /\ \A j \in 1 .. (i - 1) : schedule_root_node[j].pid # g_pid
  ELSE 0

\* No node of the list has the PID.
Unknown(g) == \A i \in Nodes : schedule_root_node[i].pid # g

\* The list with node r_node unlinked and freed.
destroyScheduleItem(list, r_node) ==
  [k \in 1 .. (Len(list) - 1) |-> IF k < r_node THEN list[k] ELSE list[k + 1]]

\* Variant: nu linked in front of the first node.
insertScheduleItemAtHead(list, nu) == <<nu>> \o list

\* The list with nu linked behind the last node.
insertScheduleItemAtEnd(list, nu) == Append(list, nu)

\* Variant: next_pid++ once, whatever the value read.
get_any_new_pid(np) == [pid |-> np, next_pid |-> (np + 1) % PidModulus]

\* next_pid++ until the value read is not 0: the PID and the counter left.
RECURSIVE get_valid_new_pid(_)
get_valid_new_pid(np) ==
  LET return_value == np
      after        == (np + 1) % PidModulus
  IN  IF return_value = 0
      THEN get_valid_new_pid(after)
      ELSE [pid |-> return_value, next_pid |-> after]

\* What malloc(sizeof(ScheduleItem)) can return on a heap that holds `blocks`
\* ScheduleItems: TRUE is a block, FALSE is NULL.
malloc(blocks) ==
  IF Len(schedule_root_node) < blocks THEN {TRUE, FALSE} ELSE {FALSE}

(***************************************************************************)
(* Profiling.  prof_data of a node is the address of its ScheduleProfile   *)
(* in heap, 0 for NULL.                                                    *)
(***************************************************************************)
\* The node refers to a block that has been freed.
Dangling(obj) ==
  /\ obj # 0
  /\ schedule_root_node[obj].prof_data # 0
  /\ ~heap[schedule_root_node[obj].prof_data].live

scheduleBeingProfiled(obj) ==
  /\ obj # 0
  /\ schedule_root_node[obj].prof_data # 0
  /\ heap[schedule_root_node[obj].prof_data].profiling_active

\* clearProfilingData(ScheduleItem*): the heap after the node's block is freed.
\* The node keeps its prof_data: line 120 clears the local copy p_data only.
Released(h, list, obj) ==
  IF obj # 0 /\ list[obj].prof_data # 0
  THEN [h EXCEPT ![list[obj].prof_data] = FreeBlock]
  ELSE h

\* What malloc(sizeof(ScheduleProfile)) can return: a block that is not
\* allocated, or NULL.
mallocProfile == {b \in ProfBlocks : ~heap[b].live} \cup {0}

\* beginProfiling(g_pid), malloc returning p_data.  With p_data NULL the
\* writes of lines 68-72 go through a null pointer.
beginProfiling(g_pid, p_data) ==
  LET target == findNodeByPID(g_pid) IN
  /\ IF target # 0 /\ schedule_root_node[target].prof_data = 0
     THEN /\ schedule_root_node' =
               [schedule_root_node EXCEPT ![target].prof_data = p_data]
          /\ heap' = IF p_data = 0 THEN heap
                     ELSE [heap EXCEPT ![p_data] =
                             [live              |-> TRUE,
                              profiling_active  |-> TRUE,
                              last_time_micros  |-> 0,
                              execution_count   |-> 0,
                              worst_time_micros |-> 0,
                              best_time_micros  |-> MicrosModulus - 1]]
     ELSE UNCHANGED <<schedule_root_node, heap>>
  /\ UNCHANGED <<next_pid, currently_executing, current, productive_loops,
                 total_loops, ret, profile_start_time, profile_last_time>>

stopProfiling(g_pid) ==
  LET obj == findNodeByPID(g_pid) IN
  /\ heap' = IF obj # 0 /\ schedule_root_node[obj].prof_data # 0
             THEN [heap EXCEPT
                     ![schedule_root_node[obj].prof_data].profiling_active = FALSE]
             ELSE heap
  /\ UNCHANGED <<schedule_root_node, next_pid, currently_executing, current,
                 productive_loops, total_loops, ret, profile_start_time,
                 profile_last_time>>

clearProfilingData(g_pid) ==
  /\ heap' = Released(heap, schedule_root_node, findNodeByPID(g_pid))
  /\ UNCHANGED <<schedule_root_node, next_pid, currently_executing, current,
                 productive_loops, total_loops, ret, profile_start_time,
                 profile_last_time>>

\* Lines 583-588: the block after an execution from micros() = start to
\* micros() = last has been recorded in it.
Recorded(block, start, last) ==
  LET max(a, b) == IF a >= b THEN a ELSE b
      min(a, b) == IF a <= b THEN a ELSE b
      last_time == max(start, last) - min(start, last)
  IN  [block EXCEPT
         !.last_time_micros  = last_time,
         !.worst_time_micros = max(block.worst_time_micros, last_time),
         !.best_time_micros  = min(block.best_time_micros, last_time),
         !.execution_count   = (block.execution_count + 1) % MicrosModulus]

(***************************************************************************)
(* The operations on program state.  prog is the frame of each.            *)
(***************************************************************************)
createSchedule(sch_period, recurrence, ac, sch_callback, nu_sched) ==
  LET new == get_valid_new_pid(next_pid) IN
  /\ IF sch_period > 1 /\ sch_callback # NULL /\ nu_sched
     THEN /\ schedule_root_node' = insertScheduleItemAtEnd(schedule_root_node,
               [pid                 |-> new.pid,
                prof_data           |-> 0,
                thread_time_to_wait |-> sch_period,
                thread_period       |-> sch_period,
                thread_recurs       |-> recurrence,
                thread_enabled      |-> TRUE,
                thread_fire         |-> FALSE,
                autoclear           |-> ac,
                schedule_callback   |-> sch_callback])
          /\ next_pid' = new.next_pid
          /\ ret' = new.pid
     ELSE /\ ret' = 0
          /\ UNCHANGED <<schedule_root_node, next_pid>>
  /\ UNCHANGED <<currently_executing, current, productive_loops, total_loops>>
  /\ NoProfiling

\* A boolean operation that rewrites node obj (when ok) and returns ok.
Rewrite(ok, obj, item) ==
  /\ IF ok
     THEN /\ schedule_root_node' = [schedule_root_node EXCEPT ![obj] = item]
          /\ ret' = 1
     ELSE /\ ret' = 0
          /\ UNCHANGED schedule_root_node
  /\ UNCHANGED <<next_pid, currently_executing, current, productive_loops,
                 total_loops>>
  /\ NoProfiling

\* Variant: the recurrence and autoclear are written before the period and the
\* callback are validated.
alterScheduleWritesFirst(g_pid, sch_period, recurrence, ac, sch_callback) ==
  LET obj == findNodeByPID(g_pid) IN
  IF obj # 0 /\ ~(sch_period > 1 /\ sch_callback # NULL)
  THEN /\ schedule_root_node' = [schedule_root_node EXCEPT
                                   ![obj].thread_recurs = recurrence,
                                   ![obj].autoclear     = ac]
       /\ ret' = 0
       /\ UNCHANGED <<next_pid, currently_executing, current, productive_loops,
                      total_loops>>
       /\ NoProfiling
  ELSE Rewrite(sch_period > 1 /\ sch_callback # NULL /\ obj # 0, obj,
               [schedule_root_node[obj] EXCEPT
                  !.thread_fire         = FALSE,
                  !.thread_recurs       = recurrence,
                  !.thread_period       = sch_period,
                  !.thread_time_to_wait = sch_period,
                  !.autoclear           = ac,
                  !.schedule_callback   = sch_callback])

alterSchedule(g_pid, sch_period, recurrence, ac, sch_callback) ==
  LET obj == findNodeByPID(g_pid) IN
  Rewrite(sch_period > 1 /\ sch_callback # NULL /\ obj # 0, obj,
          [schedule_root_node[obj] EXCEPT
             !.thread_fire         = FALSE,
             !.thread_recurs       = recurrence,
             !.thread_period       = sch_period,
             !.thread_time_to_wait = sch_period,
             !.autoclear           = ac,
             !.schedule_callback   = sch_callback])

alterScheduleAutoclear(schedule_index, ac) ==
  LET nu_sched == findNodeByPID(schedule_index) IN
  Rewrite(nu_sched # 0, nu_sched,
          [schedule_root_node[nu_sched] EXCEPT !.autoclear = ac])

alterScheduleCallback(schedule_index, sch_callback) ==
  LET nu_sched == findNodeByPID(schedule_index) IN
  Rewrite(sch_callback # NULL /\ nu_sched # 0, nu_sched,
          [schedule_root_node[nu_sched] EXCEPT !.schedule_callback = sch_callback])

\* Variant: the period is not validated.
alterSchedulePeriodUnchecked(schedule_index, sch_period) ==
  LET nu_sched == findNodeByPID(schedule_index) IN
  Rewrite(nu_sched # 0, nu_sched,
          [schedule_root_node[nu_sched] EXCEPT
             !.thread_fire         = FALSE,
             !.thread_period       = sch_period,
             !.thread_time_to_wait = sch_period])

alterSchedulePeriod(schedule_index, sch_period) ==
  LET nu_sched == findNodeByPID(schedule_index) IN
  Rewrite(sch_period > 1 /\ nu_sched # 0, nu_sched,
          [schedule_root_node[nu_sched] EXCEPT
             !.thread_fire         = FALSE,
             !.thread_period       = sch_period,
             !.thread_time_to_wait = sch_period])

\* Variant: a pending execution is left pending.
alterScheduleRecurrenceKeepsFire(schedule_index, recurrence) ==
  LET nu_sched == findNodeByPID(schedule_index) IN
  Rewrite(nu_sched # 0, nu_sched,
          [schedule_root_node[nu_sched] EXCEPT !.thread_recurs = recurrence])

alterScheduleRecurrence(schedule_index, recurrence) ==
  LET nu_sched == findNodeByPID(schedule_index) IN
  Rewrite(nu_sched # 0, nu_sched,
          [schedule_root_node[nu_sched] EXCEPT
             !.thread_fire   = FALSE,
             !.thread_recurs = recurrence])

\* willRunAgain(g_pid): its result.
willRunAgain(g_pid) ==
  LET nu_sched == findNodeByPID(g_pid) IN
  /\ nu_sched # 0
  /\ schedule_root_node[nu_sched].thread_enabled
  /\ \/ schedule_root_node[nu_sched].thread_recurs = -1
     \/ schedule_root_node[nu_sched].thread_recurs > 0

\* Variant: enabling starts the schedule afresh, unmarked.
enableScheduleUnmarks(g_pid) ==
  LET nu_sched == findNodeByPID(g_pid) IN
  Rewrite(nu_sched # 0, nu_sched,
          [schedule_root_node[nu_sched] EXCEPT !.thread_enabled = TRUE,
                                               !.thread_fire    = FALSE])

enableSchedule(g_pid) ==
  LET nu_sched == findNodeByPID(g_pid) IN
  Rewrite(nu_sched # 0, nu_sched,
          [schedule_root_node[nu_sched] EXCEPT !.thread_enabled = TRUE])

\* Variant: the delay is kept as the new period.
delaySchedulePersists(g_pid, by_ms) ==
  LET nu_sched == findNodeByPID(g_pid) IN
  Rewrite(nu_sched # 0, nu_sched,
          [schedule_root_node[nu_sched] EXCEPT
             !.thread_time_to_wait = by_ms,
             !.thread_period       = by_ms,
             !.thread_enabled      = TRUE])

delaySchedule(g_pid, by_ms) ==
  LET nu_sched == findNodeByPID(g_pid) IN
  Rewrite(nu_sched # 0, nu_sched,
          [schedule_root_node[nu_sched] EXCEPT
             !.thread_time_to_wait = by_ms,
             !.thread_enabled      = TRUE])

\* delaySchedule(g_pid) without a time: the schedule's own period.
delayScheduleToPeriod(g_pid) ==
  LET nu_sched == findNodeByPID(g_pid) IN
  Rewrite(nu_sched # 0, nu_sched,
          [schedule_root_node[nu_sched] EXCEPT
             !.thread_time_to_wait = schedule_root_node[nu_sched].thread_period,
             !.thread_enabled      = TRUE])

\* Variant: the timer is not reset.
disableScheduleKeepsTimer(g_pid) ==
  LET nu_sched == findNodeByPID(g_pid) IN
  Rewrite(nu_sched # 0, nu_sched,
          [schedule_root_node[nu_sched] EXCEPT
             !.thread_enabled = FALSE,
             !.thread_fire    = FALSE])

disableSchedule(g_pid) ==
  LET nu_sched == findNodeByPID(g_pid) IN
  Rewrite(nu_sched # 0, nu_sched,
          [schedule_root_node[nu_sched] EXCEPT
             !.thread_enabled      = FALSE,
             !.thread_fire         = FALSE,
             !.thread_time_to_wait = schedule_root_node[nu_sched].thread_period])

removeSchedule(g_pid) ==
  LET obj == findNodeByPID(g_pid) IN
  /\ IF obj # 0
     THEN IF schedule_root_node[obj].pid # currently_executing
          THEN /\ schedule_root_node' = destroyScheduleItem(schedule_root_node, obj)
               /\ heap' = Released(heap, schedule_root_node, obj)
               \* the cursor of a running service call follows its node
               /\ current' = IF obj < current THEN current - 1 ELSE current
          ELSE /\ schedule_root_node' = [schedule_root_node EXCEPT
                                           ![obj].autoclear     = TRUE,
                                           ![obj].thread_recurs = 0]
               /\ UNCHANGED <<current, heap>>
     ELSE UNCHANGED <<schedule_root_node, current, heap>>
  /\ ret' = 1
  /\ UNCHANGED <<next_pid, currently_executing, productive_loops, total_loops,
                 profile_start_time, profile_last_time>>

\* Variant: a node that is marked to run is left as it is.
TickLeavesFired(item) ==
  IF item.thread_enabled /\ ~item.thread_fire
  THEN IF item.thread_time_to_wait > 0
       THEN [item EXCEPT !.thread_time_to_wait = item.thread_time_to_wait - 1]
       ELSE [item EXCEPT !.thread_fire = TRUE,
                         !.thread_time_to_wait = item.thread_period]
  ELSE item

\* Variant: thread_enabled is not looked at.
TickAlsoDisabled(item) ==
  IF item.thread_time_to_wait > 0
  THEN [item EXCEPT !.thread_time_to_wait = item.thread_time_to_wait - 1]
  ELSE [item EXCEPT !.thread_fire = TRUE,
                    !.thread_time_to_wait = item.thread_period]

\* One node pushed forward by one tick.
Tick(item) ==
  IF item.thread_enabled
  THEN IF item.thread_time_to_wait > 0
       THEN [item EXCEPT !.thread_time_to_wait = item.thread_time_to_wait - 1]
       ELSE [item EXCEPT !.thread_fire = TRUE,
                         !.thread_time_to_wait = item.thread_period]
  ELSE item

advanceScheduler ==
  /\ schedule_root_node' = [i \in Nodes |-> Tick(schedule_root_node[i])]
  /\ UNCHANGED <<next_pid, currently_executing, current, productive_loops,
                 total_loops, ret>>
  /\ NoProfiling

\* Variant: the scan stops at the last node that has fired.
LastFired ==
  IF \E i \in Nodes : schedule_root_node[i].thread_fire
  THEN CHOOSE i \in Nodes :
         /\ schedule_root_node[i].thread_fire
         /\ \A j \in (i + 1) .. Len(schedule_root_node) :
              ~schedule_root_node[j].thread_fire
  ELSE 0

\* The node the scan of serviceScheduledEvents stops at: the first one that
\* has fired, 0 when the scan runs off the end of the list.
FirstFired ==
  IF \E i \in Nodes : schedule_root_node[i].thread_fire
  THEN CHOOSE i \in Nodes :
         /\ schedule_root_node[i].thread_fire
         /\ \A j \in 1 .. (i - 1) : ~schedule_root_node[j].thread_fire
  ELSE 0

\* Variant: the run count is decremented before it is tested.
ServicedCountsFirst(list, c) ==
  LET l1 == [list EXCEPT ![c].thread_fire = FALSE] IN
  CASE l1[c].thread_recurs = -1 -> l1
    [] l1[c].thread_recurs \in {0, 1} ->
         IF l1[c].autoclear
         THEN destroyScheduleItem(l1, c)
         ELSE [l1 EXCEPT ![c].thread_recurs       = 0,
                         ![c].thread_enabled      = FALSE,
                         ![c].thread_fire         = FALSE,
                         ![c].thread_time_to_wait = l1[c].thread_period]
    [] OTHER -> [l1 EXCEPT ![c].thread_recurs = l1[c].thread_recurs - 1]

\* Lines 591-611: the list after node c has been serviced.
Serviced(list, c) ==
  LET l1 == [list EXCEPT ![c].thread_fire = FALSE] IN
  CASE l1[c].thread_recurs = -1 -> l1
    [] l1[c].thread_recurs = 0 ->
         IF l1[c].autoclear
         THEN destroyScheduleItem(l1, c)
         ELSE [l1 EXCEPT ![c].thread_enabled      = FALSE,
                         ![c].thread_fire         = FALSE,
                         ![c].thread_time_to_wait = l1[c].thread_period]
    [] OTHER -> [l1 EXCEPT ![c].thread_recurs = l1[c].thread_recurs - 1]

\* Lines 597-599: the heap after node c has been serviced; destroyScheduleItem
\* frees the block of the node it destroys (line 291).
ServicedHeap(h, list, c) ==
  IF list[c].thread_recurs = 0 /\ list[c].autoclear
  THEN Released(h, list, c)
  ELSE h

\* Variant: a call that runs a schedule is counted as productive only.
ProductiveNotTotal(w) ==
  /\ productive_loops' = (productive_loops + 1) % w
  /\ UNCHANGED total_loops

\* Lines 612-618: the counters at the end of a call that serviced a node.  The
\* uint32_t counters are kept modulo w; they are read by nothing in the class,
\* so a specification that says nothing about them takes w = 1.
Productive(w) ==
  /\ productive_loops' = (productive_loops + 1) % w
  /\ total_loops' = (total_loops + 1) % w

\* serviceScheduledEvents up to the call of the callback (lines 568-580).
serviceCall ==
  /\ current = 0
  /\ FirstFired # 0
  /\ schedule_root_node[FirstFired].schedule_callback # NULL
  /\ currently_executing' = schedule_root_node[FirstFired].pid
  /\ current' = FirstFired
  \* the locals of the call: indeterminate (-1) until they are assigned
  /\ IF scheduleBeingProfiled(FirstFired)
     THEN profile_start_time' \in Micros
     ELSE profile_start_time' = -1
  /\ profile_last_time' = -1
  /\ UNCHANGED <<schedule_root_node, next_pid, productive_loops, total_loops, ret,
                 heap>>

\* serviceScheduledEvents from the return of the callback (lines 581-619).
serviceReturn(w) ==
  /\ current # 0
  /\ currently_executing' = 0
  /\ IF scheduleBeingProfiled(current)
     THEN \E start \in (IF profile_start_time = -1 THEN Micros
                                                   ELSE {profile_start_time}) :
            /\ profile_last_time' \in Micros
            /\ heap' = ServicedHeap(
                 [heap EXCEPT ![schedule_root_node[current].prof_data] =
                    Recorded(@, start, profile_last_time')],
                 schedule_root_node, current)
     ELSE /\ heap' = ServicedHeap(heap, schedule_root_node, current)
          /\ UNCHANGED profile_last_time
  /\ schedule_root_node' = Serviced(schedule_root_node, current)
  /\ current' = 0
  /\ Productive(w)
  \* profile_start_time has been read for the last time
  /\ profile_start_time' = -1
  /\ UNCHANGED <<next_pid, ret>>

\* serviceScheduledEvents when it calls nothing: no node has fired (lines 573,
\* 615-618), or the first fired node has no callback and is serviced all the
\* same (lines 575-576, 591-619).
serviceNoCall(w) ==
  /\ current = 0
  /\ IF FirstFired = 0
     THEN /\ total_loops' = (total_loops + 1) % w
          /\ UNCHANGED <<schedule_root_node, productive_loops, heap>>
     ELSE /\ schedule_root_node[FirstFired].schedule_callback = NULL
          /\ schedule_root_node' = Serviced(schedule_root_node, FirstFired)
          /\ heap' = ServicedHeap(heap, schedule_root_node, FirstFired)
          /\ Productive(w)
  \* the locals of the call are assigned nowhere
  /\ profile_start_time' = -1
  /\ profile_last_time' = -1
  /\ UNCHANGED <<next_pid, currently_executing, current, ret>>

(***************************************************************************)
(* The state after construction (Scheduler.h:121-130).                     *)
(***************************************************************************)
InitProg ==
  /\ schedule_root_node = <<>>
  /\ next_pid = 1
  /\ currently_executing = 0
  /\ current = 0
  /\ productive_loops = 0
  /\ total_loops = 0
  /\ ret = 0
  /\ heap = [b \in ProfBlocks |-> FreeBlock]
  /\ profile_start_time = -1
  /\ profile_last_time = -1

InitHist ==
  /\ runs = [p \in PIDs |-> 0]
  /\ born = [p \in PIDs |-> <<>>]
  /\ ticks = [p \in PIDs |-> 0]
  /\ issued = {}
  /\ last_issued = 0
  /\ wrapped = FALSE
  /\ self_removed = FALSE
  /\ looping = FALSE
  /\ asked = <<"ok">>
  /\ armed = [p \in PIDs |-> -1]
  /\ clock = 0
  /\ undefined = "none"

Init == InitProg /\ InitHist

(***************************************************************************)
(* SpecDriver: the embedder creates schedules and then only drives them:   *)
(* advanceScheduler from the tick interrupt, serviceScheduledEvents from   *)
(* the main loop; the callbacks call nothing.  PIDs are issued up to the   *)
(* first wrap of next_pid.                                                 *)
(***************************************************************************)
\* Recurrences the operations are given.
Recurrences == -1 .. MaxRecurs
\* Valid periods.
Periods == {2, 3}

\* Was the schedule created with a finite recurrence?
Finite(p) == born[p] # <<>> /\ born[p][1] >= 0

DriverCreate ==
  /\ ~looping
  /\ TRUE \in malloc(MaxItems)
  /\ \E p \in Periods, r \in Recurrences, ac \in BOOLEAN :
       /\ createSchedule(p, r, ac, "f", TRUE)
       /\ born' = [born EXCEPT ![next_pid] = <<r, ac>>]
  /\ UNCHANGED <<runs, ticks, issued, last_issued, wrapped,
                 self_removed, looping, asked, armed, clock,
                 undefined>>

\* ticks: advanceScheduler calls a live schedule has seen since it was created
\* or since the call that last set its thread_fire.
Ticked ==
  ticks' = [p \in PIDs |->
    IF findNodeByPID(p) = 0 THEN 0
    ELSE LET it == schedule_root_node[findNodeByPID(p)] IN
         IF ~it.thread_enabled THEN 0
         ELSE IF it.thread_time_to_wait = 0 THEN 0 ELSE ticks[p] + 1]

DriverAdvance ==
  /\ advanceScheduler
  /\ Ticked
  /\ looping' = TRUE
  /\ UNCHANGED <<runs, born, issued, last_issued, wrapped,
                 self_removed, asked, armed, clock, undefined>>

\* A callback is being called: the history of calls.
Called ==
  runs' = [runs EXCEPT ![currently_executing'] =
                IF Finite(currently_executing') THEN @ + 1 ELSE @]

DriverServiceCall ==
  /\ serviceCall
  /\ Called
  /\ UNCHANGED <<born, ticks, issued, last_issued, wrapped, self_removed, looping, asked, armed, clock,
                 undefined>>

DriverServiceReturn ==
  /\ serviceReturn(1)
  /\ UNCHANGED runs
  /\ UNCHANGED <<born, ticks, issued, last_issued, wrapped, self_removed, looping, asked, armed, clock,
                 undefined>>

DriverServiceNoCall ==
  /\ looping
  /\ serviceNoCall(1)
  /\ UNCHANGED <<runs, born, ticks, issued, last_issued, wrapped,
                 self_removed, looping, asked, armed, clock,
                 undefined>>

NextDriver ==
  \/ DriverCreate
  \/ DriverAdvance
  \/ DriverServiceCall
  \/ DriverServiceReturn
  \/ DriverServiceNoCall

SpecDriver == Init /\ [][NextDriver]_vars

(***************************************************************************)
(* Spec: the embedder calls every operation with every argument, from the  *)
(* main loop and from inside a running callback; advanceScheduler is the   *)
(* tick interrupt.                                                         *)
(***************************************************************************)
\* Periods and delays the operations are given (valid and invalid).
PeriodArgs == {1, 2, 3}
\* Recurrences the operations are given: forever, and last run.
OpRecurs == {-1, 0}
\* PIDs the operations are given: every PID of the list, and next_pid, which
\* is not in the list (the PIDs that are not in the list behave alike).
PidArgs == {next_pid} \cup {schedule_root_node[i].pid : i \in Nodes}
\* Delays delaySchedule is given.
DelayArgs == {0, 3}
\* The heap Spec runs on holds two ScheduleItems.
Heap == {"block1", "block2"}
\* Callbacks the operations are given (valid and invalid).
CallbackArgs == {NULL, "f"}
\* <<period, recurrence, autoclear, callback>> given to createSchedule and to
\* alterSchedule: valid ones, then a period of 1, no callback, and both.
ScheduleArgs ==
  { <<2, -1, TRUE, "f">>, <<3, 0, FALSE, "f">>, <<2, 0, TRUE, "f">>,
    <<1, 0, FALSE, "f">>, <<3, -1, FALSE, NULL>>, <<1, -1, TRUE, NULL>> }

Quiet == UNCHANGED <<runs, born, ticks, looping, armed, clock, undefined>>

\* asked: what the claims expect of a call, from its arguments alone:
\*   <<"fail">>    it has a period <= 1, no callback or a PID not in the list;
\*   <<"nomem">>   createSchedule with good arguments, malloc returned NULL;
\*   <<"create", period, recurrence, autoclear, callback>>
\*                 createSchedule with good arguments and a block from malloc;
\*   <<"ok">>      any other call.
Asked(bad) == asked' = IF bad THEN <<"fail">> ELSE <<"ok">>

\* createSchedule is called until it has handed out one PID more than the
\* heap holds ScheduleItems, so that a freed block is used again, and never
\* with next_pid wrapped around.
OpCreate ==
  /\ next_pid # 0
  /\ next_pid <= Cardinality(Heap) + 1
  /\ \E a \in ScheduleArgs, m \in malloc(Cardinality(Heap)) :
       /\ createSchedule(a[1], a[2], a[3], a[4], m)
       /\ asked' = IF a[1] <= 1 \/ a[4] = NULL THEN <<"fail">>
                   ELSE IF m THEN <<"create">> \o a ELSE <<"nomem">>
  /\ Quiet /\ UNCHANGED <<issued, last_issued, wrapped, self_removed>>

OpAlter ==
  /\ \E g \in PidArgs, a \in ScheduleArgs :
       /\ alterSchedule(g, a[1], a[2], a[3], a[4])
       /\ Asked(a[1] <= 1 \/ a[4] = NULL \/ Unknown(g))
  /\ Quiet /\ UNCHANGED <<issued, last_issued, wrapped, self_removed>>

OpAlterAutoclear ==
  /\ \E g \in PidArgs, ac \in BOOLEAN :
       alterScheduleAutoclear(g, ac) /\ Asked(Unknown(g))
  /\ Quiet /\ UNCHANGED <<issued, last_issued, wrapped, self_removed>>

OpAlterCallback ==
  /\ \E g \in PidArgs, cb \in CallbackArgs :
       alterScheduleCallback(g, cb) /\ Asked(cb = NULL \/ Unknown(g))
  /\ Quiet /\ UNCHANGED <<issued, last_issued, wrapped, self_removed>>

OpAlterPeriod ==
  /\ \E g \in PidArgs, p \in PeriodArgs :
       alterSchedulePeriod(g, p) /\ Asked(p <= 1 \/ Unknown(g))
  /\ Quiet /\ UNCHANGED <<issued, last_issued, wrapped, self_removed>>

OpAlterRecurrence ==
  /\ \E g \in PidArgs, r \in OpRecurs :
       alterScheduleRecurrence(g, r) /\ Asked(Unknown(g))
  /\ Quiet /\ UNCHANGED <<issued, last_issued, wrapped, self_removed>>

OpEnable ==
  /\ \E g \in PidArgs : enableSchedule(g) /\ Asked(Unknown(g))
  /\ Quiet /\ UNCHANGED <<issued, last_issued, wrapped, self_removed>>

OpDisable ==
  /\ \E g \in PidArgs : disableSchedule(g) /\ Asked(Unknown(g))
  /\ Quiet /\ UNCHANGED <<issued, last_issued, wrapped, self_removed>>

OpDelay ==
  /\ \E g \in PidArgs, t \in DelayArgs :
       delaySchedule(g, t) /\ Asked(Unknown(g))
  /\ Quiet /\ UNCHANGED <<issued, last_issued, wrapped, self_removed>>

OpDelayToPeriod ==
  /\ \E g \in PidArgs : delayScheduleToPeriod(g) /\ Asked(Unknown(g))
  /\ Quiet /\ UNCHANGED <<issued, last_issued, wrapped, self_removed>>

OpRemove ==
  /\ \E g \in PidArgs : removeSchedule(g) /\ Asked(FALSE)
  /\ Quiet /\ UNCHANGED <<issued, last_issued, wrapped, self_removed>>

OpAdvance ==
  /\ advanceScheduler
  /\ Asked(FALSE)
  /\ Quiet /\ UNCHANGED <<issued, last_issued, wrapped, self_removed>>

OpServiceCall ==
  /\ serviceCall
  /\ Asked(FALSE)
  /\ Quiet /\ UNCHANGED <<issued, last_issued, wrapped, self_removed>>

OpServiceReturn ==
  /\ serviceReturn(1)
  /\ Asked(FALSE)
  /\ Quiet /\ UNCHANGED <<issued, last_issued, wrapped, self_removed>>

OpServiceNoCall ==
  /\ serviceNoCall(1)
  /\ Asked(FALSE)
  /\ Quiet /\ UNCHANGED <<issued, last_issued, wrapped, self_removed>>

Next ==
  \/ OpCreate
  \/ OpAlter
  \/ OpAlterAutoclear
  \/ OpAlterCallback
  \/ OpAlterPeriod
  \/ OpAlterRecurrence
  \/ OpEnable
  \/ OpDisable
  \/ OpDelay
  \/ OpDelayToPeriod
  \/ OpRemove
  \/ OpAdvance
  \/ OpServiceCall
  \/ OpServiceReturn
  \/ OpServiceNoCall

Spec == Init /\ [][Next]_vars

(***************************************************************************)
(* SpecPid: schedules are created and removed until next_pid wraps around; *)
(* a running callback may remove schedules, its own included.              *)
(***************************************************************************)
\* <<period, recurrence, autoclear, callback>> given to createSchedule: one
\* valid, one with a bad period, one with no callback.
PidScheduleArgs ==
  {<<2, -1, FALSE, "f">>, <<1, -1, FALSE, "f">>, <<2, -1, FALSE, NULL>>}

\* The PIDs issued: createSchedule returned one.
Issued ==
  IF ret' # 0
  THEN /\ issued' = issued \cup {ret'}
       /\ last_issued' = ret'
       /\ wrapped' = (wrapped \/ next_pid' < next_pid)
  ELSE UNCHANGED <<issued, last_issued, wrapped>>

PidCreate ==
  /\ \E a \in PidScheduleArgs, m \in malloc(MaxItems) :
       /\ createSchedule(a[1], a[2], a[3], a[4], m)
       /\ asked' = IF a[1] <= 1 \/ a[4] = NULL THEN <<"fail">>
                   ELSE IF m THEN <<"create">> \o a ELSE <<"nomem">>
  /\ Issued
  /\ Quiet /\ UNCHANGED self_removed

PidRemove ==
  /\ \E g \in PidArgs :
       /\ removeSchedule(g)
       /\ self_removed' = (self_removed \/ (current # 0 /\ g = currently_executing))
       /\ asked' = <<"remove", g>>
  /\ Quiet /\ UNCHANGED <<issued, last_issued, wrapped>>

PidAdvance ==
  /\ advanceScheduler
  /\ Quiet /\ Asked(FALSE) /\ UNCHANGED <<issued, last_issued, wrapped, self_removed>>

PidServiceCall ==
  /\ serviceCall
  /\ self_removed' = FALSE
  /\ Quiet /\ Asked(FALSE) /\ UNCHANGED <<issued, last_issued, wrapped>>

PidServiceReturn ==
  /\ serviceReturn(1)
  /\ self_removed' = FALSE
  /\ Quiet /\ Asked(FALSE) /\ UNCHANGED <<issued, last_issued, wrapped>>

PidServiceNoCall ==
  /\ serviceNoCall(1)
  /\ Quiet /\ Asked(FALSE) /\ UNCHANGED <<issued, last_issued, wrapped, self_removed>>

NextPid ==
  \/ PidCreate
  \/ PidRemove
  \/ PidAdvance
  \/ PidServiceCall
  \/ PidServiceReturn
  \/ PidServiceNoCall

SpecPid == Init /\ [][NextPid]_vars

(***************************************************************************)
(* SpecTimer: schedules that run forever are created, disabled, enabled    *)
(* and delayed from the main loop while the tick interrupt and the service *)
(* calls go on.                                                            *)
(***************************************************************************)
\* History variables SpecTimer leaves alone.
QuietTimer ==
  UNCHANGED <<runs, born, ticks, issued, last_issued, wrapped, self_removed,
              looping, clock, undefined>>

TimerCreate ==
  /\ current = 0
  /\ TRUE \in malloc(MaxItems)
  /\ \E p \in Periods : createSchedule(p, -1, FALSE, "f", TRUE)
  /\ asked' = <<"create">>
  /\ QuietTimer /\ UNCHANGED armed

TimerDisable ==
  /\ current = 0
  /\ \E g \in PidArgs :
       /\ disableSchedule(g)
       /\ asked' = <<"disable", g>>
       /\ armed' = [armed EXCEPT ![g] = -1]
  /\ QuietTimer

\* armed: enableSchedule of a disabled schedule starts the count.
TimerEnable ==
  /\ current = 0
  /\ \E g \in PidArgs :
       /\ enableSchedule(g)
       /\ asked' = <<"enable", g>>
       /\ armed' = IF ~Unknown(g) /\
                      ~schedule_root_node[findNodeByPID(g)].thread_enabled
                   THEN [armed EXCEPT ![g] = 0]
                   ELSE armed
  /\ QuietTimer

TimerDelay ==
  /\ current = 0
  /\ \E g \in PidArgs, t \in DelayArgs :
       /\ delaySchedule(g, t)
       /\ asked' = <<"delay", g, t>>
       /\ armed' = [armed EXCEPT ![g] = -1]
  /\ QuietTimer

TimerDelayToPeriod ==
  /\ current = 0
  /\ \E g \in PidArgs :
       /\ delayScheduleToPeriod(g)
       /\ asked' = <<"delayp", g>>
       /\ armed' = [armed EXCEPT ![g] = -1]
  /\ QuietTimer

\* armed: every advanceScheduler call counts, up to the one that sets
\* thread_fire.
TimerAdvance ==
  /\ advanceScheduler
  /\ asked' = <<"advance">>
  /\ armed' = [p \in PIDs |->
       IF armed[p] < 0 \/ Unknown(p) THEN -1
       ELSE IF schedule_root_node[findNodeByPID(p)].thread_time_to_wait = 0
            THEN -1
            ELSE armed[p] + 1]
  /\ QuietTimer

TimerServiceCall ==
  /\ serviceCall
  /\ asked' = <<"service">>
  /\ QuietTimer /\ UNCHANGED armed

TimerServiceReturn ==
  /\ serviceReturn(1)
  /\ asked' = <<"service">>
  /\ QuietTimer /\ UNCHANGED armed

TimerServiceNoCall ==
  /\ serviceNoCall(1)
  /\ asked' = <<"service">>
  /\ QuietTimer /\ UNCHANGED armed

NextTimer ==
  \/ TimerCreate
  \/ TimerDisable
  \/ TimerEnable
  \/ TimerDelay
  \/ TimerDelayToPeriod
  \/ TimerAdvance
  \/ TimerServiceCall
  \/ TimerServiceReturn
  \/ TimerServiceNoCall

SpecTimer == Init /\ [][NextTimer]_vars

(***************************************************************************)
(* SpecScenario: one schedule is created, and then the sketch calls        *)
(* advanceScheduler and serviceScheduledEvents in turn; the callback calls *)
(* nothing.                                                                *)
(***************************************************************************)
ScenarioPeriods == {2, 10}
ScenarioRecurs == 0 .. 3

\* History variables SpecScenario leaves alone.
QuietScenario ==
  UNCHANGED <<ticks, issued, last_issued, wrapped, self_removed, looping,
              armed, undefined>>

\* born: <<recurrence, autoclear, period>> the schedule was created with.
ScenarioCreate ==
  /\ next_pid = 1
  /\ \E p \in ScenarioPeriods, r \in ScenarioRecurs, ac \in BOOLEAN :
       /\ createSchedule(p, r, ac, "f", TRUE)
       /\ born' = [born EXCEPT ![1] = <<r, ac, p>>]
  /\ asked' = <<"create">>
  /\ QuietScenario /\ UNCHANGED <<runs, clock>>

ScenarioAdvance ==
  /\ asked[1] \in {"create", "service"}
  /\ current = 0
  /\ clock < ScenarioTicks
  /\ advanceScheduler
  /\ clock' = clock + 1
  /\ asked' = <<"advance">>
  /\ QuietScenario /\ UNCHANGED <<runs, born>>

ScenarioServiceCall ==
  /\ asked[1] = "advance"
  /\ serviceCall
  /\ Called
  /\ QuietScenario /\ UNCHANGED <<born, clock, asked>>

ScenarioServiceReturn ==
  /\ serviceReturn(1)
  /\ asked' = <<"service">>
  /\ QuietScenario /\ UNCHANGED <<runs, born, clock>>

ScenarioServiceNoCall ==
  /\ asked[1] = "advance"
  /\ serviceNoCall(1)
  /\ asked' = <<"service">>
  /\ QuietScenario /\ UNCHANGED <<runs, born, clock>>

NextScenario ==
  \/ ScenarioCreate
  \/ ScenarioAdvance
  \/ ScenarioServiceCall
  \/ ScenarioServiceReturn
  \/ ScenarioServiceNoCall

SpecScenario == Init /\ [][NextScenario]_vars

(***************************************************************************)
(* SpecAlter: the setup of a sketch.  Schedules are created, profiled,      *)
(* disabled and altered while the tick interrupt goes on, before the main  *)
(* loop starts to call serviceScheduledEvents.  asked is the last call and *)
(* its arguments, clock the number of alterSchedule calls made.            *)
(***************************************************************************)
\* History variables SpecAlter leaves alone.
QuietAlter ==
  UNCHANGED <<runs, born, ticks, issued, last_issued, wrapped, self_removed,
              looping, armed, undefined>>

AlterCreate ==
  /\ next_pid # 0
  /\ TRUE \in malloc(Cardinality(Heap))
  /\ createSchedule(2, 0, FALSE, "f", TRUE)
  /\ asked' = <<"create">>
  /\ QuietAlter /\ UNCHANGED clock

\* beginProfiling of a schedule that has no ScheduleProfile, malloc returning
\* a block.
AlterBeginProfiling ==
  /\ \E g \in PidArgs, p_data \in mallocProfile \ {0} :
       /\ ~Unknown(g)
       /\ schedule_root_node[findNodeByPID(g)].prof_data = 0
       /\ beginProfiling(g, p_data)
  /\ asked' = <<"profile">>
  /\ QuietAlter /\ UNCHANGED clock

AlterDisable ==
  /\ \E g \in PidArgs : disableSchedule(g)
  /\ asked' = <<"disable">>
  /\ QuietAlter /\ UNCHANGED clock

AlterAlter ==
  /\ clock < MaxAlters
  /\ \E g \in PidArgs, a \in ScheduleArgs :
       /\ alterSchedule(g, a[1], a[2], a[3], a[4])
       /\ asked' = <<"alter", g>> \o a
  /\ clock' = clock + 1
  /\ QuietAlter

AlterAutoclear ==
  /\ clock < MaxAlters
  /\ \E g \in PidArgs, ac \in BOOLEAN :
       /\ alterScheduleAutoclear(g, ac)
       /\ asked' = <<"autoclear", g, ac>>
  /\ clock' = clock + 1
  /\ QuietAlter

AlterCallback ==
  /\ clock < MaxAlters
  /\ \E g \in PidArgs, cb \in CallbackArgs \cup {"g"} :
       /\ alterScheduleCallback(g, cb)
       /\ asked' = <<"callback", g, cb>>
  /\ clock' = clock + 1
  /\ QuietAlter

AlterPeriod ==
  /\ clock < MaxAlters
  /\ \E g \in PidArgs, p \in PeriodArgs :
       /\ alterSchedulePeriod(g, p)
       /\ asked' = <<"period", g, p>>
  /\ clock' = clock + 1
  /\ QuietAlter

AlterRecurrence ==
  /\ clock < MaxAlters
  /\ \E g \in PidArgs, r \in OpRecurs :
       /\ alterScheduleRecurrence(g, r)
       /\ asked' = <<"recurrence", g, r>>
  /\ clock' = clock + 1
  /\ QuietAlter

AlterAdvance ==
  /\ advanceScheduler
  /\ asked' = <<"advance">>
  /\ QuietAlter /\ UNCHANGED clock

NextAlter ==
  \/ AlterCreate
  \/ AlterBeginProfiling
  \/ AlterDisable
  \/ AlterAlter
  \/ AlterAutoclear
  \/ AlterCallback
  \/ AlterPeriod
  \/ AlterRecurrence
  \/ AlterAdvance

SpecAlter == Init /\ [][NextAlter]_vars

(***************************************************************************)
(* SpecProf: schedules are created, profiled and removed from the main     *)
(* loop while the tick interrupt and the service calls go on; the          *)
(* callbacks call nothing.  The behaviour of the program is undefined once *)
(* it goes through a pointer to a freed ScheduleProfile or through the     *)
(* NULL malloc returned: `undefined` then says why, and nothing follows.   *)
(***************************************************************************)
\* History variables SpecProf leaves alone.
QuietProf ==
  UNCHANGED <<runs, born, ticks, issued, last_issued, wrapped, self_removed,
              looping, armed, clock>>

\* PIDs the operations are given: those of the list.
ProfArgs == {schedule_root_node[i].pid : i \in Nodes}

\* The call made in this step goes through a bad pointer.
Undefined(why) ==
  /\ undefined' = why
  /\ UNCHANGED prog

ProfCreate ==
  /\ undefined = "none" /\ current = 0
  /\ next_pid # 0
  /\ TRUE \in malloc(Cardinality(Heap))
  /\ createSchedule(2, -1, FALSE, "f", TRUE)
  /\ asked' = <<"create">>
  /\ QuietProf /\ UNCHANGED undefined

\* beginProfiling writes through p_data without testing it (lines 67-72).
ProfBegin ==
  /\ undefined = "none" /\ current = 0
  /\ \E g \in ProfArgs, p_data \in mallocProfile :
       /\ asked' = <<"begin", g>>
       /\ IF ~Unknown(g) /\ p_data = 0
             /\ schedule_root_node[findNodeByPID(g)].prof_data = 0
          THEN Undefined("null")
          ELSE beginProfiling(g, p_data) /\ UNCHANGED undefined
  /\ QuietProf

\* stopProfiling writes profiling_active through prof_data (line 97).
ProfStop ==
  /\ undefined = "none" /\ current = 0
  /\ \E g \in ProfArgs :
       /\ asked' = <<"stop">>
       /\ IF Dangling(findNodeByPID(g))
          THEN Undefined("freed")
          ELSE stopProfiling(g) /\ UNCHANGED undefined
  /\ QuietProf

\* clearProfilingData frees prof_data (line 119).
ProfClear ==
  /\ undefined = "none" /\ current = 0
  /\ \E g \in ProfArgs :
       /\ asked' = <<"clear", g>>
       /\ IF Dangling(findNodeByPID(g))
          THEN Undefined("freed")
          ELSE clearProfilingData(g) /\ UNCHANGED undefined
  /\ QuietProf

\* removeSchedule frees prof_data in destroyScheduleItem (line 291).
ProfRemove ==
  /\ undefined = "none" /\ current = 0
  /\ \E g \in ProfArgs :
       /\ asked' = <<"remove">>
       /\ IF Dangling(findNodeByPID(g))
          THEN Undefined("freed")
          ELSE removeSchedule(g) /\ UNCHANGED undefined
  /\ QuietProf

ProfAdvance ==
  /\ undefined = "none"
  /\ advanceScheduler
  /\ asked' = <<"advance">>
  /\ QuietProf /\ UNCHANGED undefined

\* scheduleBeingProfiled reads profiling_active through prof_data (line 142).
ProfServiceCall ==
  /\ undefined = "none"
  /\ asked' = <<"service">>
  /\ IF current = 0 /\ Dangling(FirstFired)
        /\ schedule_root_node[FirstFired].schedule_callback # NULL
     THEN Undefined("freed")
     ELSE serviceCall /\ UNCHANGED undefined
  /\ QuietProf

ProfServiceReturn ==
  /\ undefined = "none"
  /\ serviceReturn(1)
  /\ asked' = <<"service">>
  /\ QuietProf /\ UNCHANGED undefined

ProfServiceNoCall ==
  /\ undefined = "none"
  /\ serviceNoCall(1)
  /\ asked' = <<"service">>
  /\ QuietProf /\ UNCHANGED undefined

NextProf ==
  \/ ProfCreate
  \/ ProfBegin
  \/ ProfStop
  \/ ProfClear
  \/ ProfRemove
  \/ ProfAdvance
  \/ ProfServiceCall
  \/ ProfServiceReturn
  \/ ProfServiceNoCall

SpecProf == Init /\ [][NextProf]_vars

(***************************************************************************)
(* SpecLoops: the loop counters.  A sketch creates schedules and then calls *)
(* advanceScheduler and serviceScheduledEvents in any order; the uint32_t   *)
(* counters productive_loops and total_loops are kept modulo LoopModulus.   *)
(***************************************************************************)
\* History variables SpecLoops leaves alone.
QuietLoops ==
  UNCHANGED <<runs, born, ticks, issued, last_issued, self_removed, looping,
              armed, clock, undefined>>

\* wrapped: total_loops has gone back to 0.
LoopsWrapped == wrapped' = (wrapped \/ total_loops' < total_loops)

LoopsCreate ==
  /\ asked[1] \in {"ok", "create"}
  /\ TRUE \in malloc(MaxItems)
  /\ \E r \in {-1, 0}, ac \in BOOLEAN : createSchedule(2, r, ac, "f", TRUE)
  /\ asked' = <<"create">>
  /\ QuietLoops /\ UNCHANGED wrapped

LoopsAdvance ==
  /\ advanceScheduler
  /\ asked' = <<"advance">>
  /\ QuietLoops /\ UNCHANGED wrapped

LoopsServiceCall ==
  /\ serviceCall
  /\ asked' = <<"call">>
  /\ QuietLoops /\ UNCHANGED wrapped

LoopsServiceReturn ==
  /\ serviceReturn(LoopModulus)
  /\ asked' = <<"return">>
  /\ QuietLoops /\ LoopsWrapped

LoopsServiceNoCall ==
  /\ serviceNoCall(LoopModulus)
  /\ asked' = <<"nocall">>
  /\ QuietLoops /\ LoopsWrapped

NextLoops ==
  \/ LoopsCreate
  \/ LoopsAdvance
  \/ LoopsServiceCall
  \/ LoopsServiceReturn
  \/ LoopsServiceNoCall

SpecLoops == Init /\ [][NextLoops]_vars

(***************************************************************************)
(* SpecElapsed: the duration serviceScheduledEvents records, for every pair *)
(* of micros() readings of a counter that wraps at ClockModulus.  One       *)
(* profiled schedule runs forever; the behaviour starts inside its          *)
(* callback, the reading before the call taken.                            *)
(***************************************************************************)
\* The values of micros() on the wider counter.
Clock == 0 .. (ClockModulus - 1)

InitElapsed ==
  /\ schedule_root_node =
       <<[pid                 |-> 1,
          prof_data           |-> 1,
          thread_time_to_wait |-> 2,
          thread_period       |-> 2,
          thread_recurs       |-> -1,
          thread_enabled      |-> TRUE,
          thread_fire         |-> TRUE,
          autoclear           |-> FALSE,
          schedule_callback   |-> "f"]>>
  /\ next_pid = 2
  /\ currently_executing = 1
  /\ current = 1
  /\ productive_loops = 0
  /\ total_loops = 0
  /\ ret = 0
  /\ heap = [b \in ProfBlocks |->
              [live              |-> TRUE,
               profiling_active  |-> TRUE,
               last_time_micros  |-> 0,
               execution_count   |-> 0,
               worst_time_micros |-> 0,
               best_time_micros  |-> ClockModulus - 1]]
  /\ profile_start_time \in Clock
  /\ profile_last_time = -1
  /\ InitHist

\* History variables SpecElapsed leaves alone.
QuietElapsed ==
  UNCHANGED <<runs, born, ticks, issued, last_issued, wrapped, self_removed,
              looping, armed, clock, undefined>>

ElapsedAdvance ==
  /\ current = 0
  /\ FirstFired = 0
  /\ advanceScheduler
  /\ asked' = <<"advance">>
  /\ QuietElapsed

\* Lines 568-580, micros() read on the wider counter.
ElapsedCall ==
  /\ current = 0
  /\ FirstFired # 0
  /\ scheduleBeingProfiled(FirstFired)
  /\ currently_executing' = schedule_root_node[FirstFired].pid
  /\ current' = FirstFired
  /\ profile_start_time' \in Clock
  /\ profile_last_time' = -1
  /\ asked' = <<"call">>
  /\ UNCHANGED <<schedule_root_node, next_pid, productive_loops, total_loops,
                 ret, heap>>
  /\ QuietElapsed

\* Lines 581-619, micros() read on the wider counter.
ElapsedReturn ==
  /\ current # 0
  /\ scheduleBeingProfiled(current)
  /\ currently_executing' = 0
  /\ profile_last_time' \in Clock
  /\ heap' = [heap EXCEPT ![schedule_root_node[current].prof_data] =
                Recorded(@, profile_start_time, profile_last_time')]
  /\ schedule_root_node' = Serviced(schedule_root_node, current)
  /\ current' = 0
  /\ Productive(1)
  /\ asked' = <<"return">>
  /\ UNCHANGED <<next_pid, ret, profile_start_time>>
  /\ QuietElapsed

NextElapsed ==
  \/ ElapsedAdvance
  \/ ElapsedCall
  \/ ElapsedReturn

SpecElapsed == InitElapsed /\ [][NextElapsed]_vars

(***************************************************************************)
(* SpecSelf: a schedule whose callback starts and stops the profiling of   *)
(* its own schedule.  The sketch creates the schedule and calls             *)
(* advanceScheduler and serviceScheduledEvents; malloc succeeds.            *)
(***************************************************************************)
\* History variables SpecSelf leaves alone.
QuietSelf ==
  UNCHANGED <<runs, born, ticks, issued, last_issued, wrapped, self_removed,
              looping, armed, clock, undefined>>

SelfCreate ==
  /\ current = 0
  /\ schedule_root_node = <<>>
  /\ \E r \in {-1, 0} : createSchedule(2, r, FALSE, "f", TRUE)
  /\ asked' = <<"create">>
  /\ QuietSelf

\* The callback calls beginProfiling(currently_executing).
SelfBegin ==
  /\ current # 0
  /\ \E p_data \in mallocProfile \ {0} :
       beginProfiling(currently_executing, p_data)
  /\ asked' = <<"begin">>
  /\ QuietSelf

\* The callback calls stopProfiling(currently_executing).
SelfStop ==
  /\ current # 0
  /\ stopProfiling(currently_executing)
  /\ asked' = <<"stop">>
  /\ QuietSelf

SelfAdvance ==
  /\ advanceScheduler
  /\ asked' = <<"advance">>
  /\ QuietSelf

SelfServiceCall ==
  /\ serviceCall
  /\ asked' = <<"call">>
  /\ QuietSelf

SelfServiceReturn ==
  /\ serviceReturn(1)
  /\ asked' = <<"return">>
  /\ QuietSelf

SelfServiceNoCall ==
  /\ serviceNoCall(1)
  /\ asked' = <<"nocall">>
  /\ QuietSelf

NextSelf ==
  \/ SelfCreate
  \/ SelfBegin
  \/ SelfStop
  \/ SelfAdvance
  \/ SelfServiceCall
  \/ SelfServiceReturn
  \/ SelfServiceNoCall

SpecSelf == Init /\ [][NextSelf]_vars

(***************************************************************************)
(* SpecKeepUp: a sketch that keeps up.  Schedules that run forever are      *)
(* created in setup(); from then on every advanceScheduler call is followed *)
(* by at least one complete serviceScheduledEvents call before the next     *)
(* one, and callbacks call nothing and return.  The fairness conditions     *)
(* say that the tick interrupt keeps coming and that loop() keeps calling   *)
(* serviceScheduledEvents.                                                  *)
(***************************************************************************)
\* History variables SpecKeepUp leaves alone.
QuietKeepUp ==
  UNCHANGED <<runs, born, ticks, issued, last_issued, wrapped, self_removed,
              armed, clock, undefined>>

KeepUpCreate ==
  /\ ~looping
  /\ TRUE \in malloc(KeepUpItems)
  /\ \E p \in Periods : createSchedule(p, -1, FALSE, "f", TRUE)
  /\ asked' = <<"create">>
  /\ QuietKeepUp /\ UNCHANGED looping

KeepUpAdvance ==
  /\ current = 0
  /\ asked[1] \in {"create", "service"}
  /\ advanceScheduler
  /\ asked' = <<"advance">>
  /\ looping' = TRUE
  /\ QuietKeepUp

KeepUpServiceCall ==
  /\ looping
  /\ serviceCall
  /\ UNCHANGED <<asked, looping>>
  /\ QuietKeepUp

KeepUpServiceReturn ==
  /\ serviceReturn(1)
  /\ asked' = <<"service">>
  /\ QuietKeepUp /\ UNCHANGED looping

KeepUpServiceNoCall ==
  /\ looping
  /\ serviceNoCall(1)
  /\ asked' = <<"service">>
  /\ QuietKeepUp /\ UNCHANGED looping

NextKeepUp ==
  \/ KeepUpCreate
  \/ KeepUpAdvance
  \/ KeepUpServiceCall
  \/ KeepUpServiceReturn
  \/ KeepUpServiceNoCall

SpecKeepUp ==
  /\ Init /\ [][NextKeepUp]_vars
  /\ WF_vars(KeepUpAdvance)
  /\ WF_vars(KeepUpServiceCall)
  /\ WF_vars(KeepUpServiceReturn)
  /\ WF_vars(KeepUpServiceNoCall)

(***************************************************************************)
(* SpecIrq: advanceScheduler as the tick interrupt.  The foreground creates *)
(* schedules and calls serviceScheduledEvents, a callback may remove its own *)
(* schedule; the interrupt runs to completion between any two steps of the  *)
(* foreground.  The list is shared with the interrupt without volatile and  *)
(* with interrupts enabled, a data race: the store of a pointer that links  *)
(* or unlinks a node (lines 231, 235, 285, 288) is one step in a build that *)
(* stores a pointer at once and two steps in a build that stores it byte by *)
(* byte.  Here `asked` is the position of the foreground inside             *)
(* createSchedule or inside the removal of a node by                        *)
(* serviceScheduledEvents, <<"ok">> outside; `clock` is flipped by every    *)
(* interrupt; schedule_root_node is the list up to the pointer being        *)
(* written.                                                                *)
(***************************************************************************)
\* History variables SpecIrq leaves alone.
QuietIrq ==
  UNCHANGED <<runs, born, ticks, issued, last_issued, wrapped, self_removed,
              looping, armed>>

\* The foreground is half-way through the store of a list pointer.
Torn == Len(asked) > 1 /\ asked[2] \in {"link", "unlink"}

\* The node current is to be removed by serviceScheduledEvents (lines 596-597).
Reaped ==
  /\ schedule_root_node[current].thread_recurs = 0
  /\ schedule_root_node[current].autoclear

\* Lines 325-342: the node is allocated and written, not linked yet.
IrqCreateInit ==
  /\ undefined = "none" /\ current = 0 /\ asked = <<"ok">>
  /\ TRUE \in malloc(MaxItems)
  /\ \E r \in {-1, 0}, ac \in BOOLEAN : asked' = <<"create", "init", r, ac>>
  /\ UNCHANGED prog
  /\ QuietIrq /\ UNCHANGED <<clock, undefined>>

\* Lines 231, 235: the first byte of temp->next or schedule_root_node is
\* stored.
IrqCreateLinkBegin ==
  /\ undefined = "none"
  /\ asked[1] = "create" /\ asked[2] = "init"
  /\ asked' = <<"create", "link", asked[3], asked[4]>>
  /\ UNCHANGED prog
  /\ QuietIrq /\ UNCHANGED <<clock, undefined>>

\* Lines 231, 235: the pointer is stored, at once or its last byte.
IrqCreateLinked ==
  /\ undefined = "none"
  /\ asked[1] = "create"
  /\ createSchedule(2, asked[3], asked[4], "f", TRUE)
  /\ asked' = <<"ok">>
  /\ QuietIrq /\ UNCHANGED <<clock, undefined>>

IrqServiceCall ==
  /\ undefined = "none" /\ asked = <<"ok">>
  /\ serviceCall
  /\ QuietIrq /\ UNCHANGED <<asked, clock, undefined>>

\* The callback calls removeSchedule(currently_executing).
IrqSelfRemove ==
  /\ undefined = "none" /\ asked = <<"ok">>
  /\ current # 0 /\ ~Reaped
  /\ removeSchedule(currently_executing)
  /\ QuietIrq /\ UNCHANGED <<asked, clock, undefined>>

\* The callback returns to a call that keeps the node.
IrqServiceReturn ==
  /\ undefined = "none" /\ asked = <<"ok">>
  /\ current # 0 /\ ~Reaped
  /\ serviceReturn(1)
  /\ QuietIrq /\ UNCHANGED <<asked, clock, undefined>>

IrqServiceNoCall ==
  /\ undefined = "none" /\ asked = <<"ok">>
  /\ serviceNoCall(1)
  /\ QuietIrq /\ UNCHANGED <<asked, clock, undefined>>

\* Lines 581-598: the callback returns to a call that removes the node;
\* thread_fire is cleared and temp = current->next is read.
IrqReapMark ==
  /\ undefined = "none" /\ asked = <<"ok">>
  /\ current # 0 /\ Reaped
  /\ currently_executing' = 0
  /\ schedule_root_node' =
       [schedule_root_node EXCEPT ![current].thread_fire = FALSE]
  /\ asked' = <<"reap", "temp">>
  /\ UNCHANGED <<next_pid, current, productive_loops, total_loops, ret>>
  /\ NoProfiling
  /\ QuietIrq /\ UNCHANGED <<clock, undefined>>

\* Lines 285, 288: the first byte of the pointer that leads to the node is
\* stored.
IrqReapUnlinkBegin ==
  /\ undefined = "none"
  /\ asked = <<"reap", "temp">>
  /\ asked' = <<"reap", "unlink">>
  /\ UNCHANGED prog
  /\ QuietIrq /\ UNCHANGED <<clock, undefined>>

\* Lines 285, 288: the pointer is stored, at once or its last byte; the node
\* is off the list, r_node still points at it.
IrqReapUnlinked ==
  /\ undefined = "none"
  /\ asked \in {<<"reap", "temp">>, <<"reap", "unlink">>}
  /\ schedule_root_node' = destroyScheduleItem(schedule_root_node, current)
  /\ asked' = <<"reap", "free", schedule_root_node[current]>>
  /\ UNCHANGED <<next_pid, currently_executing, current, productive_loops,
                 total_loops, ret>>
  /\ NoProfiling
  /\ QuietIrq /\ UNCHANGED <<clock, undefined>>

\* Lines 291-292, 599, 612-618: the node is freed and the call ends.
IrqReapFree ==
  /\ undefined = "none"
  /\ Len(asked) = 3 /\ asked[2] = "free"
  /\ heap' = IF asked[3].prof_data # 0
             THEN [heap EXCEPT ![asked[3].prof_data] = FreeBlock]
             ELSE heap
  /\ current' = 0
  /\ Productive(1)
  /\ asked' = <<"ok">>
  /\ UNCHANGED <<schedule_root_node, next_pid, currently_executing, ret,
                 profile_start_time, profile_last_time>>
  /\ QuietIrq /\ UNCHANGED <<clock, undefined>>

\* The interrupt.  It walks the list from schedule_root_node; a pointer that
\* is half stored leads it out of the list.
IrqAdvance ==
  /\ undefined = "none"
  /\ IF Torn
     THEN Undefined("torn")
     ELSE advanceScheduler /\ UNCHANGED undefined
  /\ clock' = 1 - clock
  /\ QuietIrq /\ UNCHANGED asked

NextIrq ==
  \/ IrqCreateInit
  \/ IrqCreateLinkBegin
  \/ IrqCreateLinked
  \/ IrqServiceCall
  \/ IrqSelfRemove
  \/ IrqServiceReturn
  \/ IrqServiceNoCall
  \/ IrqReapMark
  \/ IrqReapUnlinkBegin
  \/ IrqReapUnlinked
  \/ IrqReapFree
  \/ IrqAdvance

SpecIrq == Init /\ [][NextIrq]_vars

(***************************************************************************)
(* The claims.                                                             *)
(***************************************************************************)
\* A list without its node c.
Without(list, c) ==
  SubSeq(list, 1, c - 1) \o SubSeq(list, c + 1, Len(list))

\* A service call reaches the call of a callback in this step.
CallStep == current = 0 /\ current' # 0
\* The callback returns and the service call ends in this step.
ReturnStep == current # 0 /\ current' = 0

\* C1: one serviceScheduledEvents call calls at most one callback, that of the
\* first node in list order whose thread_fire is set; when the call returns,
\* that node is serviced (its thread_fire is cleared, or it is gone) and every
\* other node, fired or not, is as it was and in the same order, so that a
\* second fired node is the one the next call runs.
C1_Step ==
  /\ current # 0 =>
       \/ current' = 0
       \/ current' = current /\ currently_executing' = currently_executing
  /\ CallStep =>
       /\ schedule_root_node[current'].thread_fire
       /\ \A j \in 1 .. (current' - 1) : ~schedule_root_node[j].thread_fire
       /\ currently_executing' = schedule_root_node[current'].pid
       /\ schedule_root_node' = schedule_root_node
  /\ ReturnStep =>
       IF Len(schedule_root_node') = Len(schedule_root_node)
       THEN /\ Without(schedule_root_node', current) =
                 Without(schedule_root_node, current)
            /\ ~schedule_root_node'[current].thread_fire
            /\ schedule_root_node'[current].pid = schedule_root_node[current].pid
       ELSE schedule_root_node' = Without(schedule_root_node, current)

C1_OneFirstDue == [][C1_Step]_vars

\* Two schedules are due at once and the call runs the one registered first.
C1_Witness ==
  /\ current = 1
  /\ Len(schedule_root_node) >= 2
  /\ schedule_root_node[1].thread_fire
  /\ schedule_root_node[2].thread_fire
  /\ currently_executing = schedule_root_node[1].pid

\* C2: a schedule created with recurrence N >= 0 and only driven has had its
\* callback called N - thread_recurs times while it waits (one more while its
\* callback runs), and N + 1 times once it is finished; finished, it is gone
\* if it was created with autoclear, and otherwise it is in the list disabled,
\* not fired, with thread_time_to_wait = thread_period.  The call that reaps it
\* makes getTotalSchedules() one less.
C2_Inv ==
  \A p \in PIDs : Finite(p) =>
    IF Unknown(p)
    THEN born[p][2] /\ runs[p] = born[p][1] + 1
    ELSE \A i \in Nodes : schedule_root_node[i].pid = p =>
           IF schedule_root_node[i].thread_enabled
           THEN runs[p] = (born[p][1] - schedule_root_node[i].thread_recurs)
                            + (IF current = i THEN 1 ELSE 0)
           ELSE /\ ~born[p][2]
                /\ runs[p] = born[p][1] + 1
                /\ ~schedule_root_node[i].thread_fire
                /\ schedule_root_node[i].thread_time_to_wait =
                     schedule_root_node[i].thread_period

C2_Step ==
  /\ C2_Inv'
  /\ \A p \in PIDs :
       (Finite(p) /\ ~Unknown(p) /\ Unknown(p)') =>
          /\ getTotalSchedules' = getTotalSchedules - 1
          /\ runs[p] = born[p][1] + 1

Marked(i) ==
  /\ schedule_root_node[i].thread_enabled
  /\ schedule_root_node[i].thread_time_to_wait = 0
  /\ Len(schedule_root_node') = Len(schedule_root_node)
  /\ schedule_root_node'[i].thread_fire
  /\ schedule_root_node'[i].thread_time_to_wait = schedule_root_node[i].thread_period

\* C3: a schedule with recurrence -1 is marked due by every thread_period-th
\* advanceScheduler call: the call that marks it is the thread_period-th since
\* it was created or last marked; and servicing it leaves it in the list,
\* enabled, with recurrence -1.
C3_Step ==
  \A i \in Nodes : schedule_root_node[i].thread_recurs = -1 =>
    /\ Marked(i) =>
         ticks[schedule_root_node[i].pid] + 1 = schedule_root_node[i].thread_period
    /\ (ReturnStep /\ current = i) =>
         /\ Len(schedule_root_node') = Len(schedule_root_node)
         /\ schedule_root_node'[i].thread_enabled
         /\ schedule_root_node'[i].thread_recurs = -1

C3_EveryPeriod == [][C3_Step]_vars

\* What the code does: the marking call is the (thread_period + 1)-th.
C3_Observed ==
  [][\A i \in Nodes : Marked(i) =>
        ticks[schedule_root_node[i].pid] = schedule_root_node[i].thread_period]_vars

\* C4: in every state, inside a running callback too, a node of the list with
\* thread_enabled clear has thread_time_to_wait = thread_period and
\* thread_fire clear; so a node with thread_fire set, the only kind the scan of
\* serviceScheduledEvents stops at, is enabled.
C4_DisabledIsReset ==
  /\ \A i \in Nodes : ~schedule_root_node[i].thread_enabled =>
        /\ schedule_root_node[i].thread_time_to_wait =
             schedule_root_node[i].thread_period
        /\ ~schedule_root_node[i].thread_fire
  /\ FirstFired # 0 => schedule_root_node[FirstFired].thread_enabled

\* A callback runs while another schedule is disabled, and the running one has
\* been disabled from its own callback.
C4_Witness ==
  /\ current # 0
  /\ Len(schedule_root_node) = 2
  /\ \A i \in Nodes : ~schedule_root_node[i].thread_enabled
  /\ ret = 1

\* The program state a failing call must leave alone.
Engine == <<schedule_root_node, next_pid, currently_executing, current,
            productive_loops, total_loops>>

\* C6: a call with a period <= 1, no callback or a PID that is not in the list
\* (createSchedule, alterSchedule and the four single-field alters,
\* enableSchedule, disableSchedule, both delaySchedule) returns 0 / false and
\* changes nothing: not the list, its order or any field of a node, nor
\* next_pid.
C6_Step == asked'[1] = "fail" => (ret' = 0 /\ UNCHANGED Engine)

C6_FailureChangesNothing == [][C6_Step]_vars

\* A call has failed on a list of two schedules, one fired, one disabled,
\* inside a callback.
C6_Witness ==
  /\ asked = <<"fail">>
  /\ ret = 0
  /\ current # 0
  /\ Len(schedule_root_node) = 2
  /\ \E i \in Nodes : schedule_root_node[i].thread_fire
  /\ \E i \in Nodes : ~schedule_root_node[i].thread_enabled

\* The node createSchedule is to link in for the arguments recorded in a.
Fresh(a, pid) ==
  [pid                 |-> pid,
   prof_data           |-> 0,
   thread_time_to_wait |-> a[2],
   thread_period       |-> a[2],
   thread_recurs       |-> a[3],
   thread_enabled      |-> TRUE,
   thread_fire         |-> FALSE,
   autoclear           |-> a[4],
   schedule_callback   |-> a[5]]

\* What a successful createSchedule does.
Created ==
  /\ ret' # 0
  /\ Len(schedule_root_node') = Len(schedule_root_node) + 1
  /\ SubSeq(schedule_root_node', 1, Len(schedule_root_node)) = schedule_root_node
  /\ asked'[1] = "create" =>
       schedule_root_node'[Len(schedule_root_node')] = Fresh(asked', ret')
  /\ getTotalSchedules' = getTotalSchedules + 1
  /\ getActiveSchedules' = getActiveSchedules + 1

\* C7 as stated: every createSchedule with a period > 1 and a callback returns
\* a PID that is not 0 and appends the new node.
C7_EveryValidCreate == [][asked'[1] \in {"create", "nomem"} => Created]_vars

\* C7: a createSchedule with a period > 1 and a callback, for which malloc
\* returns a block, returns a PID that is not 0; the list is then the list
\* before, in the same order, followed by one new last node with that PID, the
\* given period, recurrence, autoclear and callback, enabled, not fired,
\* thread_time_to_wait = thread_period and no profiling data; and
\* getTotalSchedules() and getActiveSchedules() are each one more.
C7_AllocatedCreate == [][asked'[1] = "create" => Created]_vars

\* A second schedule has been created behind a first one that is disabled.
C7_Witness ==
  /\ asked[1] = "create"
  /\ Len(schedule_root_node) = 2
  /\ schedule_root_node[2].pid = ret
  /\ ~schedule_root_node[1].thread_enabled

\* C8: every node of the list has a period > 1 and a callback.
C8_PeriodAndCallback ==
  \A i \in Nodes :
    /\ schedule_root_node[i].thread_period > 1
    /\ schedule_root_node[i].schedule_callback # NULL

\* A schedule created with period 2 has period 3 after alterations, and the
\* last call, with a bad period or no callback, has failed.
C8_Witness ==
  /\ asked = <<"fail">>
  /\ \E i \in Nodes :
       /\ schedule_root_node[i].pid = 1
       /\ schedule_root_node[i].thread_period = 3
       /\ schedule_root_node[i].thread_recurs = -1
       /\ schedule_root_node[i].autoclear

\* C9: createSchedule never returns 0 when it succeeds: the first PID it
\* returns is 1, each later one is the last returned plus one, and after the
\* largest value of the counter comes 1, not 0; a createSchedule that fails
\* leaves next_pid alone; and until next_pid has wrapped around, the PID
\* returned was never returned before, whether or not its holder is gone.
C9_Step ==
  /\ asked'[1] \in {"fail", "nomem"} => (ret' = 0 /\ next_pid' = next_pid)
  /\ asked'[1] = "create" =>
       /\ ret' # 0
       /\ ret' = IF last_issued \in {0, PidModulus - 1} THEN 1
                 ELSE last_issued + 1
       /\ ~wrapped => ret' \notin issued

C9_PidSequence == [][C9_Step]_vars

\* next_pid has wrapped around and the create after that returned 1.
C9_Witness ==
  /\ wrapped
  /\ asked[1] = "create"
  /\ ret = 1
  /\ issued = PIDs \ {0}

\* C10: the nodes of the list have pairwise distinct PIDs.
C10_DistinctPIDs ==
  \A i, j \in Nodes : i # j => schedule_root_node[i].pid # schedule_root_node[j].pid

\* The running callback calls removeSchedule with its own PID for the first
\* time in this step.
SelfRemoveStep == current # 0 /\ ~self_removed /\ self_removed'

\* C5: when a callback calls removeSchedule with the PID of its own schedule,
\* the node of the running schedule stays in the list while the callback runs
\* and the other nodes are as they were, in the same order; and when the
\* service call returns, the list is the list before without that node.
C5_Step ==
  /\ (current # 0 /\ current' # 0) =>
       /\ current' <= Len(schedule_root_node')
       /\ schedule_root_node'[current'].pid = currently_executing
  /\ SelfRemoveStep =>
       /\ Len(schedule_root_node') = Len(schedule_root_node)
       /\ Without(schedule_root_node', current) =
            Without(schedule_root_node, current)
  /\ (ReturnStep /\ self_removed) =>
       schedule_root_node' = Without(schedule_root_node, current)

C5_SelfRemoval == [][C5_Step]_vars

\* What the code does: the same, as long as no other node of the list has the
\* PID of the running schedule.
C5_Observed ==
  [][(\A i \in Nodes : i # current =>
        schedule_root_node[i].pid # currently_executing) => C5_Step]_vars

\* C11: after disableSchedule and then enableSchedule of a schedule, with no
\* delaySchedule or alter in between, the advanceScheduler call that next sets
\* its thread_fire is the thread_period-th call after the enableSchedule.
C11_Step ==
  \A i \in Nodes :
    (Marked(i) /\ armed[schedule_root_node[i].pid] >= 0) =>
       armed[schedule_root_node[i].pid] + 1 = schedule_root_node[i].thread_period

C11_PeriodAfterEnable == [][C11_Step]_vars

\* What the code does: it is the (thread_period + 1)-th call, never an earlier
\* one.
C11_Observed ==
  [][\A i \in Nodes :
       (Marked(i) /\ armed[schedule_root_node[i].pid] >= 0) =>
          armed[schedule_root_node[i].pid] = schedule_root_node[i].thread_period]_vars

\* The scenario: period 10, recurrence 3, autoclear; the service call that
\* follows advanceScheduler call number n has returned.
After(n) ==
  /\ born[1] = <<3, TRUE, 10>>
  /\ asked = <<"service">>
  /\ clock = n

\* C12: in the scenario the callback has run once after 10 advanceScheduler
\* calls, and thread_recurs is 2; twice after 20; three times after 30, and
\* then the schedule is gone and getTotalSchedules() is one less.
C12_Scenario ==
  /\ After(10) => /\ runs[1] = 1
                  /\ ~Unknown(1)
                  /\ schedule_root_node[findNodeByPID(1)].thread_recurs = 2
  /\ After(20) => runs[1] = 2
  /\ After(30) => /\ runs[1] = 3
                  /\ Unknown(1)
                  /\ getTotalSchedules = 0

\* What the code does: the callback runs after every 11th advanceScheduler
\* call, and the schedule is reaped by its fourth run.
C12_Observed ==
  /\ \A n \in 0 .. 10 : After(n) => runs[1] = 0
  /\ \A n \in 11 .. 21 : After(n) => runs[1] = 1
  /\ After(11) => schedule_root_node[findNodeByPID(1)].thread_recurs = 2
  /\ \A n \in 22 .. 32 : After(n) => runs[1] = 2
  /\ \A n \in 33 .. 43 : After(n) => runs[1] = 3 /\ getTotalSchedules = 1
  /\ After(44) => runs[1] = 4 /\ getTotalSchedules = 0

\* removeSchedule(g) is called in this step, g is the PID of a node and not
\* that of the running callback.
RemoveStep(g) ==
  /\ asked' = <<"remove", g>>
  /\ ~Unknown(g)
  /\ g # currently_executing

\* The list changes by one node appended or one node unlinked, or not in
\* its PIDs.
SurvivorsInOrder ==
  \/ Len(schedule_root_node') = Len(schedule_root_node)
       /\ \A i \in Nodes : schedule_root_node'[i].pid = schedule_root_node[i].pid
  \/ Len(schedule_root_node') = Len(schedule_root_node) + 1
       /\ SubSeq(schedule_root_node', 1, Len(schedule_root_node)) = schedule_root_node
  \/ \E c \in Nodes : schedule_root_node' = Without(schedule_root_node, c)

\* C13: removeSchedule with the PID of a node that is not the one running
\* unlinks that node at once: on return no node has that PID, there is one
\* node less, and the other nodes are as they were and in their order; and
\* every step leaves the surviving nodes in the order of their creation.
C13_Step ==
  /\ \A g \in PIDs :
       RemoveStep(g) =>
         /\ schedule_root_node' = Without(schedule_root_node, findNodeByPID(g))
         /\ Len(schedule_root_node') = getTotalSchedules - 1
         /\ \A i \in 1 .. Len(schedule_root_node') : schedule_root_node'[i].pid # g
  /\ SurvivorsInOrder

C13_RemoveNow == [][C13_Step]_vars

\* What the code does: the first node with the PID is unlinked, and the PID
\* is gone with it where it was held by one node only.
C13_Observed ==
  [][/\ \A g \in PIDs :
          RemoveStep(g) =>
            /\ schedule_root_node' = Without(schedule_root_node, findNodeByPID(g))
            /\ C10_DistinctPIDs =>
                 \A i \in 1 .. Len(schedule_root_node') : schedule_root_node'[i].pid # g
     /\ SurvivorsInOrder]_vars

\* C14: removeSchedule returns true where a node has the PID and false where
\* none has.
C14_Step ==
  \A g \in PIDs :
    asked' = <<"remove", g>> => (ret' = IF Unknown(g) THEN 0 ELSE 1)

C14_RemoveResult == [][C14_Step]_vars

\* What the code does: removeSchedule returns true whatever the PID.
C14_Observed == [][asked'[1] = "remove" => ret' = 1]_vars

\* The list with the node of PID g replaced by item.
Altered(g, item) ==
  [schedule_root_node EXCEPT ![findNodeByPID(g)] = item]

\* Nothing of the scheduler but the list changes in this step.
OnlyTheList ==
  /\ heap' = heap
  /\ next_pid' = next_pid
  /\ currently_executing' = currently_executing
  /\ current' = current

\* C15: a successful alterSchedule(pid, period, recurrence, autoclear,
\* callback) writes these four, sets thread_time_to_wait to the period and
\* clears thread_fire, and leaves the PID, the place in the list,
\* thread_enabled and prof_data, and every other node, as they were.
\* alterSchedulePeriod writes the period, the time to wait and clears
\* thread_fire; alterScheduleRecurrence writes the recurrence and clears
\* thread_fire; the autoclear and callback variants write that field only.
C15_Step ==
  \A g \in PIDs :
    (ret' = 1 /\ ~Unknown(g)) =>
      LET old == schedule_root_node[findNodeByPID(g)] IN
      /\ asked'[1] \in {"alter", "autoclear", "callback", "period", "recurrence"}
           /\ asked'[2] = g
           => OnlyTheList
      /\ asked'[1] = "alter" /\ asked'[2] = g =>
           schedule_root_node' = Altered(g,
             [pid                 |-> old.pid,
              prof_data           |-> old.prof_data,
              thread_enabled      |-> old.thread_enabled,
              thread_fire         |-> FALSE,
              thread_period       |-> asked'[3],
              thread_time_to_wait |-> asked'[3],
              thread_recurs       |-> asked'[4],
              autoclear           |-> asked'[5],
              schedule_callback   |-> asked'[6]])
      /\ asked'[1] = "period" /\ asked'[2] = g =>
           schedule_root_node' = Altered(g,
             [pid                 |-> old.pid,
              prof_data           |-> old.prof_data,
              thread_enabled      |-> old.thread_enabled,
              thread_fire         |-> FALSE,
              thread_period       |-> asked'[3],
              thread_time_to_wait |-> asked'[3],
              thread_recurs       |-> old.thread_recurs,
              autoclear           |-> old.autoclear,
              schedule_callback   |-> old.schedule_callback])
      /\ asked'[1] = "recurrence" /\ asked'[2] = g =>
           schedule_root_node' = Altered(g,
             [pid                 |-> old.pid,
              prof_data           |-> old.prof_data,
              thread_enabled      |-> old.thread_enabled,
              thread_fire         |-> FALSE,
              thread_period       |-> old.thread_period,
              thread_time_to_wait |-> old.thread_time_to_wait,
              thread_recurs       |-> asked'[3],
              autoclear           |-> old.autoclear,
              schedule_callback   |-> old.schedule_callback])
      /\ asked'[1] = "autoclear" /\ asked'[2] = g =>
           schedule_root_node' = Altered(g,
             [pid                 |-> old.pid,
              prof_data           |-> old.prof_data,
              thread_enabled      |-> old.thread_enabled,
              thread_fire         |-> old.thread_fire,
              thread_period       |-> old.thread_period,
              thread_time_to_wait |-> old.thread_time_to_wait,
              thread_recurs       |-> old.thread_recurs,
              autoclear           |-> asked'[3],
              schedule_callback   |-> old.schedule_callback])
      /\ asked'[1] = "callback" /\ asked'[2] = g =>
           schedule_root_node' = Altered(g,
             [pid                 |-> old.pid,
              prof_data           |-> old.prof_data,
              thread_enabled      |-> old.thread_enabled,
              thread_fire         |-> old.thread_fire,
              thread_period       |-> old.thread_period,
              thread_time_to_wait |-> old.thread_time_to_wait,
              thread_recurs       |-> old.thread_recurs,
              autoclear           |-> old.autoclear,
              schedule_callback   |-> asked'[3]])

C15_AlterWrites == [][C15_Step]_vars

\* alterSchedule has succeeded on the second of two schedules, which is
\* disabled and has a ScheduleProfile; the first is still marked to run.
C15_Witness ==
  /\ asked[1] = "alter"
  /\ ret = 1
  /\ getTotalSchedules = 2
  /\ schedule_root_node[2].pid = asked[2]
  /\ ~schedule_root_node[2].thread_enabled
  /\ schedule_root_node[2].prof_data # 0
  /\ schedule_root_node[2].thread_period = 3
  /\ schedule_root_node[1].thread_fire

\* The node of PID g with its time to wait set and enabled, all else kept.
Delayed(g, by_ms) ==
  LET old == schedule_root_node[findNodeByPID(g)] IN
  Altered(g, [pid                 |-> old.pid,
              prof_data           |-> old.prof_data,
              thread_enabled      |-> TRUE,
              thread_fire         |-> old.thread_fire,
              thread_period       |-> old.thread_period,
              thread_time_to_wait |-> by_ms,
              thread_recurs       |-> old.thread_recurs,
              autoclear           |-> old.autoclear,
              schedule_callback   |-> old.schedule_callback])

\* C16: delaySchedule(pid, by_ms) on a schedule of the list sets its
\* thread_time_to_wait to by_ms and enables it, and changes nothing else;
\* delaySchedule(pid) does what delaySchedule(pid, thread_period) does; and
\* the advanceScheduler call that marks a schedule to run resets its
\* thread_time_to_wait to thread_period, which no delay has changed.
C16_Step ==
  /\ \A g \in PIDs :
       ~Unknown(g) =>
         /\ asked'[1] = "delay" /\ asked'[2] = g =>
              /\ schedule_root_node' = Delayed(g, asked'[3])
              /\ OnlyTheList
              /\ ret' = 1
         /\ asked' = <<"delayp", g>> =>
              /\ schedule_root_node' =
                   Delayed(g, schedule_root_node[findNodeByPID(g)].thread_period)
              /\ OnlyTheList
              /\ ret' = 1
  /\ asked' = <<"advance">> =>
       \A i \in Nodes :
         (schedule_root_node[i].thread_enabled /\
          schedule_root_node[i].thread_time_to_wait = 0) =>
            /\ schedule_root_node'[i].thread_fire
            /\ schedule_root_node'[i].thread_period = schedule_root_node[i].thread_period
            /\ schedule_root_node'[i].thread_time_to_wait = schedule_root_node[i].thread_period

C16_DelayOnce == [][C16_Step]_vars

\* delaySchedule(pid, 3) has returned on a schedule of period 2 that is marked
\* to run.
C16_Witness ==
  /\ asked[1] = "delay"
  /\ asked[3] = 3
  /\ ~Unknown(asked[2])
  /\ schedule_root_node[findNodeByPID(asked[2])].thread_period = 2
  /\ schedule_root_node[findNodeByPID(asked[2])].thread_time_to_wait = 3
  /\ schedule_root_node[findNodeByPID(asked[2])].thread_enabled
  /\ schedule_root_node[findNodeByPID(asked[2])].thread_fire
  /\ ret = 1

\* The callback of a schedule that is being profiled returns in this step,
\* and its ScheduleProfile is block b.
ProfiledReturn(b) ==
  /\ ReturnStep
  /\ scheduleBeingProfiled(current)
  /\ schedule_root_node[current].prof_data = b
  /\ profile_start_time # -1

\* The statistics of block b are as they were.
SameStatistics(b) ==
  /\ heap'[b].last_time_micros = heap[b].last_time_micros
  /\ heap'[b].worst_time_micros = heap[b].worst_time_micros
  /\ heap'[b].best_time_micros = heap[b].best_time_micros
  /\ heap'[b].execution_count = heap[b].execution_count

\* The statistics of block b have taken in one more execution, of duration d.
OneMore(b, d) ==
  /\ heap'[b].execution_count = (heap[b].execution_count + 1) % MicrosModulus
  /\ heap'[b].last_time_micros = d
  /\ heap'[b].worst_time_micros =
       (IF heap[b].worst_time_micros >= d THEN heap[b].worst_time_micros ELSE d)
  /\ heap'[b].best_time_micros =
       (IF heap[b].best_time_micros <= d THEN heap[b].best_time_micros ELSE d)

\* C17: every execution of a schedule with profiling active adds one to
\* execution_count, sets last_time_micros to the time the callback took, from
\* micros() before it to micros() after it, and keeps best_time_micros the
\* least and worst_time_micros the greatest of these times, so that best <=
\* last <= worst once there was an execution; no other step changes the
\* statistics of a ScheduleProfile.
C17_Step ==
  \A b \in ProfBlocks :
    /\ ProfiledReturn(b) =>
         OneMore(b, (profile_last_time' - profile_start_time) % MicrosModulus)
    /\ (~ProfiledReturn(b) /\ heap[b].live /\ heap'[b].live) => SameStatistics(b)
    /\ (heap[b].live /\ heap[b].execution_count > 0) =>
         /\ heap[b].best_time_micros <= heap[b].last_time_micros
         /\ heap[b].last_time_micros <= heap[b].worst_time_micros

C17_ProfileIsExact == [][C17_Step]_vars

\* What the code does: the time recorded is the difference of the greater and
\* the lesser of the two micros() readings.
C17_Observed ==
  [][\A b \in ProfBlocks :
       /\ ProfiledReturn(b) =>
            OneMore(b, IF profile_last_time' >= profile_start_time
                       THEN profile_last_time' - profile_start_time
                       ELSE profile_start_time - profile_last_time')
       /\ (~ProfiledReturn(b) /\ heap[b].live /\ heap'[b].live) => SameStatistics(b)
       /\ (heap[b].live /\ heap[b].execution_count > 0) =>
            /\ heap[b].best_time_micros <= heap[b].last_time_micros
            /\ heap[b].last_time_micros <= heap[b].worst_time_micros]_vars

\* C18: once clearProfilingData has freed the ScheduleProfile of a schedule,
\* the schedule does not refer to it: scheduleBeingProfiled is false, and no
\* call reads, writes or frees the freed block.
C18_NoUseAfterFree ==
  /\ \A i \in Nodes : ~Dangling(i)
  /\ undefined # "freed"

\* What the code does: clearProfilingData frees the block and leaves prof_data
\* of the schedule pointing at it.
C18_Observed ==
  [][\A g \in PIDs :
       (asked' = <<"clear", g>> /\ undefined' = "none" /\ ~Unknown(g)) =>
          LET obj == findNodeByPID(g) IN
          /\ schedule_root_node' = schedule_root_node
          /\ schedule_root_node[obj].prof_data # 0 =>
               ~heap'[schedule_root_node[obj].prof_data].live]_vars

\* The schedule of PID g has a live ScheduleProfile with profiling active and
\* nothing recorded.
FreshProfile(g) ==
  /\ \A i \in 1 .. Len(schedule_root_node') :
       schedule_root_node'[i].pid = g =>
         /\ schedule_root_node'[i].prof_data # 0
         /\ heap'[schedule_root_node'[i].prof_data] =
              [live              |-> TRUE,
               profiling_active  |-> TRUE,
               last_time_micros  |-> 0,
               execution_count   |-> 0,
               worst_time_micros |-> 0,
               best_time_micros  |-> MicrosModulus - 1]

\* C19: beginProfiling on a schedule of the list leaves it with profiling
\* active and a fresh ScheduleProfile (nothing counted, last and worst 0, best
\* the greatest value), also after stopProfiling and after
\* clearProfilingData, where malloc has a block to give.
C19_Step ==
  \A g \in PIDs :
    (asked' = <<"begin", g>> /\ ~Unknown(g) /\ undefined' = "none") =>
       FreshProfile(g)

C19_BeginIsFresh == [][C19_Step]_vars

\* What the code does: beginProfiling gives a fresh ScheduleProfile to a
\* schedule that has none, malloc permitting, and does nothing to a schedule
\* that has one, stopped or freed.
C19_Observed ==
  [][\A g \in PIDs :
       (asked' = <<"begin", g>> /\ ~Unknown(g)) =>
          IF schedule_root_node[findNodeByPID(g)].prof_data = 0
          THEN undefined' = "null" \/ FreshProfile(g)
          ELSE heap' = heap /\ schedule_root_node' = schedule_root_node]_vars

\* C20: willRunAgain(pid) is true exactly of a schedule of the list that is
\* enabled and has a run ahead of it; a schedule of which it is false is not
\* run again while it is not altered, enabled or delayed.
C20_Step ==
  /\ \A g \in PIDs :
       willRunAgain(g) =>
         (~Unknown(g) /\ schedule_root_node[findNodeByPID(g)].thread_enabled)
  /\ CallStep => willRunAgain(schedule_root_node[current'].pid)

C20_WillRunAgain == [][C20_Step]_vars

\* What the code does: willRunAgain is also false of an enabled schedule
\* whose thread_recurs is 0, which runs once more.
C20_Observed ==
  [][/\ \A g \in PIDs :
          willRunAgain(g) =>
            (~Unknown(g) /\ schedule_root_node[findNodeByPID(g)].thread_enabled)
     /\ CallStep =>
          \/ willRunAgain(schedule_root_node[current'].pid)
          \/ /\ schedule_root_node[current'].thread_enabled
             /\ schedule_root_node[current'].thread_recurs = 0]_vars

\* advanceScheduler is called in this step.
AdvanceStep == asked' = <<"advance">>

\* Node i is enabled and marked to run.
Due(i) ==
  /\ schedule_root_node[i].thread_enabled
  /\ schedule_root_node[i].thread_fire

\* C21 as stated: advanceScheduler leaves a schedule that is enabled and
\* marked to run untouched, its thread_time_to_wait and thread_fire are as
\* they were.
C21_Untouched ==
  [][AdvanceStep =>
       \A i \in Nodes :
         Due(i) => schedule_root_node'[i] = schedule_root_node[i]]_vars

\* C21: advanceScheduler leaves the thread_fire of a schedule that is enabled
\* and marked to run set, and goes on counting: its thread_time_to_wait is
\* one less, or thread_period where it was 0; nothing else of it changes.
C21_Step ==
  AdvanceStep =>
    \A i \in Nodes :
      Due(i) =>
        schedule_root_node'[i] =
          [schedule_root_node[i] EXCEPT
             !.thread_time_to_wait =
                IF schedule_root_node[i].thread_time_to_wait > 0
                THEN schedule_root_node[i].thread_time_to_wait - 1
                ELSE schedule_root_node[i].thread_period]

C21_CountsOn == [][C21_Step]_vars

\* advanceScheduler has returned, and a schedule marked to run has been
\* counted down since it was marked.
C21_Witness ==
  /\ asked = <<"advance">>
  /\ \E i \in Nodes :
       /\ Due(i)
       /\ schedule_root_node[i].thread_time_to_wait < schedule_root_node[i].thread_period

\* The schedule with PID p is marked to run in list l.
Fired(l, p) == \E i \in 1 .. Len(l) : l[i].pid = p /\ l[i].thread_fire

\* C22: a schedule that advanceScheduler has marked stays marked until the
\* service call that runs it returns or until disableSchedule is called on
\* it: no advanceScheduler, no enableSchedule or delaySchedule and no run of
\* another schedule unmarks it. A callback is called only for a marked
\* schedule, once per service call, and the return unmarks the schedule; only
\* advanceScheduler marks, so that two runs of a schedule have a marking
\* advanceScheduler between them.
C22_Step ==
  /\ \A p \in PIDs :
       /\ Fired(schedule_root_node, p) /\ ~Fired(schedule_root_node', p) =>
            \/ ReturnStep /\ currently_executing = p
            \/ asked' = <<"disable", p>>
       /\ ~Fired(schedule_root_node, p) /\ Fired(schedule_root_node', p) =>
            AdvanceStep
  /\ CallStep =>
       /\ Fired(schedule_root_node, currently_executing')
       /\ schedule_root_node[current'].pid = currently_executing'
  /\ current # 0 => ~CallStep /\ (current' # 0 => AdvanceStep)
  /\ ReturnStep => ~Fired(schedule_root_node', currently_executing)

C22_MarkedUntilRun == [][C22_Step]_vars

\* The second of two marked schedules is still marked when the run of the
\* first has returned, ticks later than it was marked.
C22_Witness ==
  /\ Len(schedule_root_node) = 2
  /\ current = 0
  /\ asked = <<"service">>
  /\ ~schedule_root_node[1].thread_fire
  /\ Due(2)
  /\ schedule_root_node[2].thread_time_to_wait < schedule_root_node[2].thread_period

\* C23: advanceScheduler changes only thread_time_to_wait and thread_fire of
\* enabled schedules: thread_time_to_wait > 0 is decremented and thread_fire
\* kept, thread_time_to_wait = 0 sets thread_fire and resets
\* thread_time_to_wait to thread_period. Disabled schedules, the list's
\* length and order, every other field, the profiling records and the loop
\* counters are as they were.
C23_Step ==
  AdvanceStep =>
    /\ Len(schedule_root_node') = Len(schedule_root_node)
    /\ \A i \in Nodes :
         LET item == schedule_root_node[i] IN
         schedule_root_node'[i] =
           IF ~item.thread_enabled THEN item
           ELSE IF item.thread_time_to_wait > 0
           THEN [item EXCEPT !.thread_time_to_wait = item.thread_time_to_wait - 1]
           ELSE [item EXCEPT !.thread_fire = TRUE,
                             !.thread_time_to_wait = item.thread_period]
    /\ UNCHANGED <<heap, next_pid, productive_loops, total_loops, current,
                   currently_executing>>

C23_AdvanceFrame == [][C23_Step]_vars

\* advanceScheduler has returned with a disabled schedule and a schedule it
\* has just marked in the list.
C23_Witness ==
  /\ asked = <<"advance">>
  /\ \E i \in Nodes : ~schedule_root_node[i].thread_enabled
  /\ \E i \in Nodes :
       /\ Due(i)
       /\ schedule_root_node[i].thread_time_to_wait = schedule_root_node[i].thread_period

\* A serviceScheduledEvents call ends in this step, having called a callback
\* (ServedStep) or not (IdleStep).
ServedStep == asked' = <<"return">>
IdleStep == asked' = <<"nocall">>

\* C24 as stated: every serviceScheduledEvents call adds exactly one to
\* total_loops, and one to productive_loops if it ran a schedule and nothing
\* otherwise, so that productive_loops <= total_loops always; a call that
\* finds no schedule marked changes nothing else.
C24_Counters ==
  [][/\ ServedStep => /\ total_loops' = total_loops + 1
                      /\ productive_loops' = productive_loops + 1
     /\ IdleStep => /\ total_loops' = total_loops + 1
                    /\ UNCHANGED <<productive_loops, schedule_root_node, heap>>
     /\ productive_loops' <= total_loops']_vars

\* C24: every serviceScheduledEvents call adds one to total_loops, and one to
\* productive_loops if it ran a schedule and nothing otherwise, both modulo
\* the range of the counters; productive_loops <= total_loops as long as
\* total_loops has not wrapped; no other operation changes the counters, and
\* a call that finds no schedule marked changes nothing else.
C24_Step ==
  /\ ServedStep => /\ total_loops' = (total_loops + 1) % LoopModulus
                   /\ productive_loops' = (productive_loops + 1) % LoopModulus
  /\ IdleStep => /\ total_loops' = (total_loops + 1) % LoopModulus
                 /\ UNCHANGED <<productive_loops, schedule_root_node, heap,
                                next_pid, current, currently_executing>>
  /\ ~(ServedStep \/ IdleStep) => UNCHANGED <<productive_loops, total_loops>>
  /\ ~wrapped' => productive_loops' <= total_loops'

C24_CountersModulo == [][C24_Step]_vars

\* Calls of both kinds have been counted, and total_loops has not wrapped.
C24_Witness ==
  /\ ~wrapped
  /\ asked = <<"nocall">>
  /\ 0 < productive_loops
  /\ productive_loops < total_loops

\* The time from reading start to reading last of a counter that has wrapped
\* at most once in between.
TrueElapsed(start, last) == (last - start + ClockModulus) % ClockModulus

\* C25: when the callback took less than half the range of micros(), the
\* counter wrapping at most once, the last_time_micros recorded at the return
\* is the time it took: (last - start) modulo the range.
C25_RolloverSafe ==
  [][ReturnStep /\ 2 * TrueElapsed(profile_start_time, profile_last_time') < ClockModulus
       => heap'[1].last_time_micros = TrueElapsed(profile_start_time, profile_last_time')]_vars

\* What the code records: the distance of the two readings, which is the
\* time the callback took when micros() has not wrapped in between.
C25_Observed ==
  [][ReturnStep =>
       /\ profile_start_time <= profile_last_time' =>
            heap'[1].last_time_micros = TrueElapsed(profile_start_time, profile_last_time')
       /\ profile_start_time > profile_last_time' =>
            heap'[1].last_time_micros =
              ClockModulus - TrueElapsed(profile_start_time, profile_last_time')]_vars

\* The return of this step writes a duration into the profiling record of the
\* schedule that ran.
SampleStep == ReturnStep /\ scheduleBeingProfiled(current)

\* C28: a duration written at the return of a callback is computed from two
\* micros() readings of that service call, profile_start_time read before the
\* callback and profile_last_time read after it, also when the callback has
\* started or stopped the profiling of its own schedule.
C28_StartWasRead ==
  [][SampleStep =>
       /\ profile_start_time # -1
       /\ profile_last_time' # -1
       /\ heap'[schedule_root_node[current].prof_data].last_time_micros \in
            {profile_start_time - profile_last_time',
             profile_last_time' - profile_start_time}]_vars

\* What holds: a schedule that is profiled when its callback is called has
\* its start read, and a callback that leaves its schedule unprofiled has no
\* duration written.
C28_Observed ==
  [][/\ CallStep /\ scheduleBeingProfiled(current') => profile_start_time' # -1
     /\ ReturnStep /\ ~scheduleBeingProfiled(current) => heap' = heap]_vars

\* The callback of node i is running.
Dispatched(i) == current = i

\* C27 as stated: in a sketch that calls serviceScheduledEvents at least once
\* after every advanceScheduler call, and whose callbacks return and call
\* nothing, every schedule that is marked to run is eventually run, whatever
\* its place in the list and whatever the schedules before it.
C27_NoStarvation ==
  \A i \in 1 .. KeepUpItems : (i \in Nodes /\ Due(i)) ~> Dispatched(i)

\* The share of the service calls a schedule of period p takes, in twelfths:
\* it is marked once in p + 1 advanceScheduler calls.
Share(p) == 12 \div (p + 1)

RECURSIVE LoadBefore(_)
\* The share of the service calls the nodes before node i take together.
LoadBefore(i) ==
  IF i <= 1 THEN 0
  ELSE LoadBefore(i - 1) + Share(schedule_root_node[i - 1].thread_period)

\* C27: in such a sketch a schedule that is marked to run is eventually run
\* if the schedules before it in the list leave a service call free: the
\* sum of 1 / (thread_period + 1) over them is less than 1.
C27_NoStarvationUnderLoad ==
  \A i \in 1 .. KeepUpItems :
    (i \in Nodes /\ Due(i) /\ LoadBefore(i) < 12) ~> Dispatched(i)

\* The last of four schedules runs, behind three that take eleven twelfths of
\* the service calls.
C27_Witness ==
  /\ Len(schedule_root_node) = 4
  /\ LoadBefore(4) = 11
  /\ Dispatched(4)

\* The interrupt runs in this step.
IrqStep == clock' # clock

\* The PIDs of a list, in list order.
PidsOf(l) == [i \in 1 .. Len(l) |-> l[i].pid]

\* C26: advanceScheduler run as an interrupt between any two steps of
\* createSchedule or of serviceScheduledEvents, the removal of a node and a
\* self-removal included, never goes to a node that is freed or not yet
\* written, and leaves the nodes of the list and their order, and the node
\* the foreground holds, as they are.
C26_InterruptSafe ==
  [][IrqStep =>
       /\ undefined' = "none"
       /\ PidsOf(schedule_root_node') = PidsOf(schedule_root_node)
       /\ asked' = asked]_vars

\* What holds: the same, for the interrupts that do not fall between the
\* bytes of a pointer store.
C26_Observed ==
  [][IrqStep /\ ~Torn =>
       /\ undefined' = "none"
       /\ PidsOf(schedule_root_node') = PidsOf(schedule_root_node)
       /\ asked' = asked]_vars

====
